---- MODULE Spec2Model ----
(***************************************************************************)
(* Telegram Google Drive bot: the download pipeline (URL resolver,         *)
(* downloader with confirmation page and retry loop, streaming to a temp   *)
(* file under a size cap), the message handlers that own the temp file,    *)
(* and the periodic sweep of the temp directory.                           *)
(***************************************************************************)
EXTENDS Integers, Sequences, FiniteSets, TLC

(***************************************************************************)
(* Bounds of the model.                                                    *)
(***************************************************************************)
MaxRetriesOpt == 5    \* largest explicit options.maxRetries that is tried
MaxDepth == 2         \* nesting of attemptDownload <-> handleVirusScanPage
MaxPath == 1          \* collision suffixes name, name_1 .. name_MaxPath
MaxFiles == 2         \* file names in the swept directory
MaxSweeps == 3        \* timer periods of the sweep that are followed
MaxProcs == 3         \* messages handled at the same time
MaxUpdates == 2       \* updates a bot receives one after the other
MaxHistoryOps == 4    \* additions to and deletions from the file histories
MaxNesting == 4       \* nesting followed against a server that always sends a page
MaxElapsed == 6       \* half seconds of Date.now() followed after the bot has started

(***************************************************************************)
(* Program constants.                                                      *)
(***************************************************************************)
MAX_FILE_SIZE_MB == 50
MAX_FILE_SIZE_BYTES == MAX_FILE_SIZE_MB * 1024 * 1024
DefaultMaxRetries == 3
MinFileIdLen == 25
MaxFileIdLen == 50
ConfirmMaxRetries == 1
BackoffBaseMs == 1000
BackoffCapMs == 5000
CleanupIntervalMs == 30 * 60 * 1000
CleanupMaxAgeHours == 1

(***************************************************************************)
(* JavaScript values that reach the entry points.                          *)
(***************************************************************************)
Str(s) == [type |-> "string", chars |-> s]
Null == [type |-> "null", chars |-> <<>>]
Undef == [type |-> "undefined", chars |-> <<>>]
Num == [type |-> "number", chars |-> <<>>]

\* !v for the values above (a number input is taken to be non-zero)
Falsy(v) == v.type \in {"null", "undefined"} \/ (v.type = "string" /\ v.chars = <<>>)

\* [a-zA-Z0-9_-], by representatives
TokenAlphabet == {"a", "Z", "7", "_", "-"}
BadChar == "!"

Pow2(n) == IF n <= 0 THEN 1 ELSE 2 ^ n
Min(a, b) == IF a <= b THEN a ELSE b

(***************************************************************************)
(* url-parser.js                                                           *)
(***************************************************************************)
\* /^[a-zA-Z0-9_-]{25,50}$/ without the length quantifier
isValidFileId_nolen(fileId) ==
    /\ ~Falsy(fileId)
    /\ fileId.type = "string"
    /\ \A i \in 1..Len(fileId.chars) : fileId.chars[i] \in TokenAlphabet

isValidFileId_exclusive(fileId) ==
    /\ ~Falsy(fileId)
    /\ fileId.type = "string"
    /\ Len(fileId.chars) > MinFileIdLen
    /\ Len(fileId.chars) < MaxFileIdLen
    /\ \A i \in 1..Len(fileId.chars) : fileId.chars[i] \in TokenAlphabet

\* !fileId || typeof fileId !== 'string' -> false; else /^[a-zA-Z0-9_-]{25,50}$/
isValidFileId(fileId) ==
    /\ ~Falsy(fileId)
    /\ fileId.type = "string"
    /\ Len(fileId.chars) >= MinFileIdLen
    /\ Len(fileId.chars) <= MaxFileIdLen
    /\ \A i \in 1..Len(fileId.chars) : fileId.chars[i] \in TokenAlphabet

\* A URL is a sequence of tokens: the literal pieces the patterns name are
\* one token each, every other character is a token of its own.
\* The greedy run [a-zA-Z0-9_-]+ starting at position j (empty: no match).
IdRun(url, j) ==
    LET e == CHOOSE e \in (j - 1)..Len(url) :
                 /\ \A k \in j..e : url[k] \in TokenAlphabet
                 /\ (e = Len(url) \/ url[e + 1] \notin TokenAlphabet)
    IN  SubSeq(url, j, e)

\* literal tokens lits at position i, followed by a non-empty capture
LitsAt(url, i, lits) ==
    /\ i + Len(lits) - 1 <= Len(url)
    /\ \A k \in 1..Len(lits) : url[i + k - 1] = lits[k]

CaptureAfter(url, i, lits) ==
    IF LitsAt(url, i, lits) /\ i + Len(lits) <= Len(url)
    THEN IdRun(url, i + Len(lits)) ELSE <<>>

\* leftmost match of lits followed by the capture group
FirstCapture(url, lits) ==
    LET hits == {i \in 1..Len(url) : CaptureAfter(url, i, lits) # <<>>}
    IN  IF hits = {} THEN <<>>
        ELSE CaptureAfter(url, CHOOSE i \in hits : \A j \in hits : i <= j, lits)

standardView(url) == FirstCapture(url, <<"drive.google.com", "/file/d/">>)

openFormat(url) == FirstCapture(url, <<"drive.google.com", "/open", "?", "id=">>)

docsFormat(url) ==
    LET caps == {FirstCapture(url, <<"docs.google.com", k>>) :
                    k \in {"/document/d/", "/spreadsheets/d/", "/presentation/d/"}}
        found == {c \in caps : c # <<>>}
    IN  IF found = {} THEN <<>> ELSE CHOOSE c \in found : TRUE

\* drive.google.com/uc\?.*[&?]id=(...): after "uc?" a further "&" or "?"
\* must precede "id="; .* is greedy, so the last such place is taken
directDownload(url) ==
    LET starts == {i \in 1..Len(url) : LitsAt(url, i, <<"drive.google.com", "/uc", "?">>)}
    IN  IF starts = {} THEN <<>>
        ELSE LET s == CHOOSE i \in starts : \A j \in starts : i <= j
                 seps == {j \in (s + 3)..Len(url) :
                             /\ url[j] \in {"&", "?"}
                             /\ CaptureAfter(url, j + 1, <<"id=">>) # <<>>}
             IN  IF seps = {} THEN <<>>
                 ELSE CaptureAfter(url, (CHOOSE j \in seps : \A k \in seps : j >= k) + 1,
                                   <<"id=">>)

editFormat(url) ==
    LET hits == {i \in 1..Len(url) :
                    LET c == CaptureAfter(url, i, <<"drive.google.com", "/file/d/">>)
                    IN  /\ c # <<>>
                        /\ i + 2 + Len(c) <= Len(url)
                        /\ url[i + 2 + Len(c)] = "/edit"}
    IN  IF hits = {} THEN <<>>
        ELSE CaptureAfter(url, CHOOSE i \in hits : \A j \in hits : i <= j,
                          <<"drive.google.com", "/file/d/">>)

\* the patterns in declaration order
GOOGLE_DRIVE_PATTERNS(url) ==
    <<standardView(url), openFormat(url), docsFormat(url),
      directDownload(url), editFormat(url)>>

isValidGoogleDriveUrl(url) ==
    \E k \in 1..5 : GOOGLE_DRIVE_PATTERNS(url)[k] # <<>>

\* the first pattern that matches gives the identifier; Null when none does
parseGoogleDriveUrl(url) ==
    LET ms == GOOGLE_DRIVE_PATTERNS(url)
        ks == {k \in 1..5 : ms[k] # <<>>}
    IN  IF ks = {} THEN Null
        ELSE Str(ms[CHOOSE k \in ks : \A j \in ks : k <= j])

(***************************************************************************)
(* Errors, results, file system values.                                    *)
(***************************************************************************)
Err(tag) == [tag |-> tag, wraps |-> 0]
NoError == Err("none")
\* handleVirusScanPage's catch: `Failed to handle virus scan page: ${message}`
Wrap(e) == [e EXCEPT !.wraps = @ + 1]

NoResult == [kind |-> "none"]
FailResult(e) == [kind |-> "fail", error |-> e]
OkResult(p, n) == [kind |-> "ok", filePath |-> p, fileSize |-> n]

Absent == -1
Paths == 0..MaxPath
NoStream == [path |-> 0, state |-> "none", buffered |-> 0]

\* identifiers and message texts that are tried
MkId(n, bad) == [i \in 1..n |-> IF bad /\ i = 1 THEN BadChar
                                ELSE IF i % 2 = 0 THEN "a" ELSE "7"]

UrlView(id) == <<"https://", "drive.google.com", "/file/d/">> \o id \o <<"/view">>
UrlOpen(id) == <<"https://", "drive.google.com", "/open", "?", "id=">> \o id
UrlOther == <<"https://", "example.com", "/", "a">>

(***************************************************************************)
(* State.                                                                  *)
(***************************************************************************)
VARIABLES
    caller,         \* "none", "direct", "basic", "enhanced"
    msgText,        \* text of the message being handled
    fileId,         \* argument of downloadGoogleDriveFile
    pc,             \* position of the download call
    stack,          \* attemptDownload frames, innermost last
    maxRetries,     \* attemptDownload's maxRetries in the outermost frame
    initReqs,       \* GETs of the initial download URL in this call
    confirmReqs,    \* GETs of a confirm=<token> URL in this call
    waits,          \* backoff delays waited in this call
    log,            \* last logger.warn('Download attempt k failed') of the outer loop
    resp,           \* headers of the last response
    candidate,      \* generateUniqueFilePath: suffix under test
    fileSize,       \* streamToFile: running byte count
    ws,             \* the write stream of the current attempt
    pendingOpen,    \* paths whose fs.open has not completed
    pendingUnlink,  \* paths whose fs.unlink has not completed
    stale,          \* aborted transfers whose source still flows
    files,          \* temp directory: path -> bytes on disk, or Absent
    sizeAborted,    \* paths whose transfer was rejected for size in this call
    transfers,      \* response streams received and neither ended nor destroyed
    result,         \* value the call returned
    hpc,            \* position of the message handler
    observed,       \* bytes the type detection found at filePath
    dirFiles,       \* swept directory: name -> [mtime, owned] or NoFile
    clock,          \* Date.now()
    spc,            \* position of cleanupTempFiles
    sweepList,      \* files of readdir not yet visited
    sweepNow,       \* cleanupTempFiles: now
    sweepOld,       \* files that were older than maxAge when the sweep started
    touched,        \* files written since the sweep started
    conc,           \* concurrently handled messages: position, counter, filePath
    retry,          \* one call of retryOperation
    uCall,          \* a utility function applied to an argument
    uRet,           \* what it returned
    disp,           \* the update that travels down a bot's middleware chain
    served,         \* updates whose chain has returned, with their outcome
    fileHistory,    \* enhanced bot: user -> recent files, newest first
    userStats,      \* enhanced bot: user -> message_count, download_count
    histClock,      \* stamp of the newest history entry ever added
    histOps,        \* history operations followed so far
    nesting,        \* nesting of attemptDownload up to which a call is followed
    cooldowns,      \* enhanced bot: `${userId}_${action}` -> Date.now() of the last accepted call
    cdNow,          \* Date.now() as checkCooldown reads it
    cdCall,         \* the last call of checkCooldown and what it returned
    acceptedAt      \* key -> cdNow of the last call that returned 0

dlVars == <<pc, stack, maxRetries, initReqs, confirmReqs, waits, log, resp, candidate,
            fileSize,  result, sizeAborted, transfers>>
fsVars == <<ws, pendingOpen, pendingUnlink, stale, files>>
hVars == <<caller, msgText, fileId, hpc, observed>>
sweepVars == <<dirFiles, clock, spc, sweepList, sweepNow, sweepOld, touched>>
histVars == <<fileHistory, userStats, histClock, histOps>>
botVars == <<disp, served, histVars>>
coolVars == <<cooldowns, cdNow, cdCall, acceptedAt>>
extVars == <<conc, retry, uCall, uRet, botVars, nesting, coolVars>>
baseVars == <<dlVars, fsVars, hVars, sweepVars, conc, retry, uCall, uRet, nesting, coolVars>>
vars == <<dlVars, fsVars, hVars, sweepVars, extVars>>

(***************************************************************************)
(* googleDrive.js: helpers of the attempt loop.                            *)
(***************************************************************************)
\* const maxRetries = options.maxRetries || 3
maxRetriesOf(options) ==
    IF options = {} \/ options = {0} THEN DefaultMaxRetries
    ELSE CHOOSE n \in options : TRUE

HasMoreAttempts_offByOne(attempt, max) == attempt <= max

\* if (attempt < maxRetries): wait and go round the loop again
HasMoreAttempts(attempt, max) == attempt < max

SetLastError_first(old, err) == IF old = NoError THEN err ELSE old

\* lastError = error
SetLastError(old, err) == err

BackoffDelay_uncapped(attempt) == BackoffBaseMs * Pow2(attempt - 1)

\* Math.min(1000 * Math.pow(2, attempt - 1), 5000)
BackoffDelay(attempt) == Min(BackoffBaseMs * Pow2(attempt - 1), BackoffCapMs)

DeclaredTooLarge_inclusive(contentLength) == contentLength >= MAX_FILE_SIZE_BYTES

\* if (contentLength > config.MAX_FILE_SIZE_BYTES)
DeclaredTooLarge(contentLength) == contentLength > MAX_FILE_SIZE_BYTES

\* if (fileSize > config.MAX_FILE_SIZE_BYTES)
ExceedsCap(n) == n > MAX_FILE_SIZE_BYTES

\* fileSizeBytes <= maxSizeMB * 1024 * 1024
validateFileSize(fileSizeBytes, maxSizeMB) == fileSizeBytes <= maxSizeMB * 1024 * 1024

Frame(url, max) ==
    [url |-> url, attempt |-> 1, maxRetries |-> max, lastError |-> NoError]

\* The catch block of the attemptDownload frame on top of stk receives err.
\* It logs, then waits for the next round, or rethrows lastError: to
\* handleVirusScanPage's catch (which wraps it) and the frame below, or,
\* from the outermost frame, to downloadGoogleDriveFile's catch.
RECURSIVE attemptDownloadCatch(_, _)
attemptDownloadCatch(stk, err) ==
    IF stk = <<>>
    THEN [stack |-> <<>>, outcome |-> "fail", error |-> err, logs |-> <<>>]
    ELSE LET n == Len(stk)
             top == stk[n]
             entry == [depth |-> n, attempt |-> top.attempt, error |-> err]
             kept == SetLastError(top.lastError, err)
         IN  IF HasMoreAttempts(top.attempt, top.maxRetries)
             THEN [stack |-> [stk EXCEPT ![n].lastError = kept],
                   outcome |-> "backoff", error |-> err, logs |-> <<entry>>]
             ELSE LET below == attemptDownloadCatch(SubSeq(stk, 1, n - 1),
                                   IF n > 1 THEN Wrap(kept) ELSE kept)
                  IN  [below EXCEPT !.logs = <<entry>> \o @]

\* what the handler does with the value downloadGoogleDriveFile returned,
\* up to its next await
AfterDownload(c, res) ==
    IF c = "direct" THEN "none"
    ELSE IF res.kind = "fail" THEN "errorEdit"
    ELSE IF validateFileSize(res.fileSize, MAX_FILE_SIZE_MB) THEN "statusEdit2"
    ELSE "removeOversize"

\* a failure reaches the catch of the current frame
Throw(err) ==
    LET c == attemptDownloadCatch(stack, err)
    IN  /\ stack' = c.stack
        /\ log' = IF c.logs # <<>> /\ c.logs[Len(c.logs)].depth = 1
                  THEN [attempt |-> c.logs[Len(c.logs)].attempt,
                        error |-> c.logs[Len(c.logs)].error]
                  ELSE log
        /\ IF c.outcome = "backoff"
           THEN /\ pc' = "backoff"
                /\ waits' = Append(waits, BackoffDelay(c.stack[Len(c.stack)].attempt))
                /\ UNCHANGED <<result, hpc>>
           ELSE /\ pc' = "returned"
                /\ result' = FailResult(c.error)
                /\ hpc' = AfterDownload(caller, result')
                /\ UNCHANGED waits

(***************************************************************************)
(* Initial state: nothing in flight, an empty temp directory.              *)
(***************************************************************************)
Procs == 1..MaxProcs
ProcIdle == [pc |-> "idle", counter |-> 0, filePath |-> 0]
RetryIdle ==
    [pc |-> "idle", maxRetries |-> 0, baseDelay |-> 0, maxDelay |-> 0,
     retryCondition |-> "default", attempt |-> 0, lastError |-> Undef,
     outcomes |-> <<>>, delays |-> <<>>, value |-> Undef]
NoCall == [fn |-> "none"]

NoFile == [mtime |-> -1, owned |-> FALSE]
FileNames == 1..MaxFiles

SweepIdle ==
    /\ dirFiles = [f \in FileNames |-> NoFile]
    /\ clock = 0 /\ spc = "off" /\ sweepList = <<>>
    /\ sweepNow = 0 /\ sweepOld = {} /\ touched = {}

DownloaderIdle ==
    /\ pc = "idle" /\ stack = <<>> /\ maxRetries = 0
    /\ initReqs = 0 /\ confirmReqs = 0
    /\ waits = <<>> /\ log = [attempt |-> 0, error |-> NoError]
    /\ resp = [kind |-> "none", declared |-> 0]
    /\ candidate = 0 /\ fileSize = 0 /\ result = NoResult /\ sizeAborted = {}
    /\ transfers = 0
    /\ ws = NoStream /\ pendingOpen = {} /\ pendingUnlink = {} /\ stale = {}
    /\ files = [p \in Paths |-> Absent]
    /\ caller = "none" /\ msgText = <<>> /\ fileId = Null
    /\ hpc = "none" /\ observed = Absent

\* Date.now() when the bot starts: milliseconds since 1970, far above any
\* cooldownTime; 10000 stands for it
ProcessStart == 10000

ExtIdle ==
    /\ conc = [p \in Procs |-> ProcIdle]
    /\ retry = RetryIdle
    /\ uCall = NoCall /\ uRet = NoCall
    /\ cooldowns = <<>> /\ acceptedAt = <<>>
    /\ cdNow = ProcessStart /\ cdCall = [fn |-> "none"]

NoUpdate == [pc |-> "idle", bot |-> "none", kind |-> "none", pos |-> 0]
Users == 1..2
Sender == 1           \* ctx.from.id of the message that is followed
FileHistoryLimit == 50

\* the enhanced bot after user 1 has had n files delivered, one by one
BotAfter(n) ==
    /\ disp = NoUpdate
    /\ served = <<>>
    /\ fileHistory = [u \in Users |-> IF u = Sender THEN [i \in 1..n |-> n + 1 - i]
                                     ELSE <<>>]
    /\ userStats = [u \in Users |-> [message_count |-> 0,
                                     download_count |-> IF u = Sender THEN n ELSE 0]]
    /\ histClock = n
    /\ histOps = 0

BotIdle == BotAfter(0)

Init == DownloaderIdle /\ SweepIdle /\ ExtIdle /\ BotIdle /\ nesting = MaxDepth

(***************************************************************************)
(* downloadGoogleDriveFile(id, options), up to the first await.            *)
(* fileId.substring(...) runs before the validation and again in the       *)
(* catch block, so a value without that method escapes as a TypeError.     *)
(***************************************************************************)
downloadGoogleDriveFile(c, id, options) ==
    /\ fileId' = id
    /\ UNCHANGED <<confirmReqs, waits, log, resp, candidate, fileSize, sizeAborted,
                   transfers>>
    /\ IF id.type # "string"
       THEN /\ pc' = "thrown"
            /\ hpc' = IF c = "direct" THEN "none" ELSE "done"
            /\ UNCHANGED <<stack, maxRetries, initReqs, result>>
       ELSE IF Falsy(id) \/ ~isValidFileId(id)
       THEN /\ pc' = "returned"
            /\ result' = FailResult(Err("InvalidFileId"))
            /\ hpc' = AfterDownload(c, result')
            /\ UNCHANGED <<stack, maxRetries, initReqs>>
       ELSE /\ pc' = "awaitResponse"
            /\ maxRetries' = maxRetriesOf(options)
            /\ stack' = <<Frame("initial", maxRetries')>>
            /\ initReqs' = 1
            /\ hpc' = IF c = "direct" THEN "none" ELSE "download"
            /\ UNCHANGED result

\* a script calls the downloader directly (the usage examples)
DirectCall ==
    /\ pc = "idle" /\ hpc = "none" /\ caller = "none"
    \* the options argument: {} when maxRetries is not given, {n} when it is n
    /\ \E id \in {Null, Undef, Num}
                   \cup {Str(MkId(n, b)) :
                            n \in {0, 19, MinFileIdLen - 1, MinFileIdLen, MaxFileIdLen + 1},
                            b \in BOOLEAN},
          options \in {{}} \cup {{n} : n \in 0..MaxRetriesOpt} :
          downloadGoogleDriveFile("direct", id, options)
    /\ caller' = "direct"
    /\ UNCHANGED <<msgText, observed, fsVars, sweepVars, extVars>>

\* bot.on(message('text')): the message handler up to its first status edit
ReceiveMessage ==
    /\ pc = "idle" /\ hpc = "none" /\ caller = "none"
    /\ \E bot \in {"basic", "enhanced"},
          text \in {UrlView(MkId(MinFileIdLen, FALSE)), UrlView(MkId(19, FALSE)),
                    UrlOpen(MkId(MaxFileIdLen + 1, FALSE)), UrlOther} :
          /\ caller' = bot
          /\ msgText' = text
          /\ IF ~isValidGoogleDriveUrl(text)
             THEN hpc' = "done" /\ fileId' = Null
             ELSE /\ fileId' = parseGoogleDriveUrl(text)
                  /\ hpc' = IF Falsy(fileId') THEN "errorEdit" ELSE "statusEdit1"
    /\ UNCHANGED <<observed, dlVars, fsVars, sweepVars, extVars>>

\* editMessageText('Downloading...') settles; then the download is started
StatusEdit1 ==
    /\ hpc = "statusEdit1"
    /\ \/ downloadGoogleDriveFile(caller, fileId, {})
       \/ /\ hpc' = "errorEdit"
          /\ UNCHANGED <<fileId, dlVars>>
    /\ UNCHANGED <<caller, msgText, observed, fsVars, sweepVars, extVars>>

(***************************************************************************)
(* attemptDownload: the response to the pending GET arrives.               *)
(***************************************************************************)
\* axios rejects: timeout, connection refused, 5xx
RespondError ==
    /\ pc = "awaitResponse"
    \* axios rejects (timeout, connection refused, 5xx): the catch block does
    \* not look at the kind, one representative is tried
    /\ \E e \in {"Timeout"} :
          /\ resp' = [kind |-> "error", declared |-> 0]
          /\ Throw(Err(e))
    /\ UNCHANGED <<maxRetries, initReqs, confirmReqs, candidate, fileSize,
                   sizeAborted, transfers, fsVars, caller, msgText, fileId, observed,
                   sweepVars, extVars>>

\* content-type text/html: handleVirusScanPage starts to buffer the body
RespondHtml ==
    /\ pc = "awaitResponse"
    /\ resp' = [kind |-> "html", declared |-> 0]
    /\ transfers' = transfers + 1
    /\ pc' = "htmlBody"
    /\ UNCHANGED <<stack, maxRetries, initReqs, confirmReqs, waits, log,
                   candidate, fileSize, result, sizeAborted, fsVars, hVars,
                   sweepVars, extVars>>

\* any other content type: size check on Content-Length, then
\* generateUniqueFilePath starts with the clean file name.  The throw of
\* the size check leaves response.data unread and not destroyed.
RespondBinary ==
    /\ pc = "awaitResponse"
    /\ transfers' = transfers + 1
    \* Content-Length of the response; 0 stands for a missing header
    /\ \E d \in {0, MAX_FILE_SIZE_BYTES, MAX_FILE_SIZE_BYTES + 1} :
          /\ resp' = [kind |-> "binary", declared |-> d]
          /\ IF DeclaredTooLarge(d)
             THEN /\ Throw(Err("FileTooLargeDeclared"))
                  /\ UNCHANGED candidate
             ELSE /\ pc' = "pathExists"
                  /\ candidate' = 0
                  /\ UNCHANGED <<stack, waits, log, result, hpc>>
    /\ UNCHANGED <<maxRetries, initReqs, confirmReqs, fileSize, sizeAborted,
                   fsVars, caller, msgText, fileId, observed, sweepVars, extVars>>

\* handleVirusScanPage: the HTML body has been read (or the stream failed)
HtmlBody ==
    /\ pc = "htmlBody"
    /\ transfers' = transfers - 1
    /\ \/ /\ Len(stack) < nesting
          /\ stack' = Append(stack, Frame("confirm", ConfirmMaxRetries))
          /\ confirmReqs' = confirmReqs + 1
          /\ pc' = "awaitResponse"
          /\ UNCHANGED <<waits, log, result, hpc>>
       \/ /\ Throw(Wrap(Err("ConfirmationTokenNotFound")))
          /\ UNCHANGED confirmReqs
       \/ /\ Throw(Wrap(Err("StreamError")))
          /\ UNCHANGED confirmReqs
    /\ UNCHANGED <<maxRetries, initReqs, resp, candidate, fileSize, sizeAborted,
                   fsVars, caller, msgText, fileId, observed, sweepVars, extVars>>

\* the backoff timer fires: next round of the loop, the GET is sent again.
\* The wait is at least BackoffBaseMs: the file system operations the failed
\* attempt left behind are taken to have completed by then.
BackoffElapsed ==
    /\ pc = "backoff"
    /\ pendingOpen = {} /\ pendingUnlink = {} /\ stale = {}
    /\ LET n == Len(stack) IN
          /\ stack' = [stack EXCEPT ![n].attempt = @ + 1]
          /\ IF stack[n].url = "initial"
             THEN initReqs' = initReqs + 1 /\ UNCHANGED confirmReqs
             ELSE confirmReqs' = confirmReqs + 1 /\ UNCHANGED initReqs
    /\ pc' = "awaitResponse"
    /\ UNCHANGED <<maxRetries, waits, log, resp, candidate, fileSize, result,
                   sizeAborted, transfers, fsVars, hVars, sweepVars, extVars>>

(***************************************************************************)
(* generateUniqueFilePath and streamToFile.                                *)
(***************************************************************************)
\* one round of `while (await fs.pathExists(filePath))`; when the path is
\* free, streamToFile creates the write stream (the open is asynchronous)
\* and pipes the response into it
generateUniqueFilePath ==
    /\ pc = "pathExists"
    /\ IF files[candidate] # Absent
       THEN /\ candidate < MaxPath
            /\ candidate' = candidate + 1
            /\ UNCHANGED <<pc, fileSize, sizeAborted, ws, pendingOpen>>
       ELSE /\ ws' = [path |-> candidate, state |-> "open", buffered |-> 0]
            /\ pendingOpen' = pendingOpen \cup {candidate}
            /\ sizeAborted' = sizeAborted \ {candidate}
            /\ fileSize' = 0
            /\ pc' = "streaming"
            /\ UNCHANGED candidate
    /\ UNCHANGED <<stack, maxRetries, initReqs, confirmReqs, waits, log, resp,
                   result, transfers, pendingUnlink, stale, files, hVars, sweepVars, extVars>>

\* stream.on('data'): count, check the cap; below the cap the pipe hands
\* the chunk to the write stream.  Above it the write stream is destroyed
\* and the promise rejected; the response stream itself is left open.
streamToFile_data ==
    /\ pc = "streaming"
    /\ \E n \in {MAX_FILE_SIZE_BYTES \div 2} :
          /\ fileSize' = fileSize + n
          /\ IF ExceedsCap(fileSize')
             THEN /\ ws' = [ws EXCEPT !.state = "destroyed", !.buffered = 0]
                  /\ pendingUnlink' = pendingUnlink \cup {ws.path}
                  /\ stale' = stale \cup {ws.path}
                  /\ sizeAborted' = sizeAborted \cup {ws.path}
                  /\ Throw(Err("FileTooLargeStream"))
             ELSE /\ ws' = [ws EXCEPT !.buffered = @ + n]
                  /\ UNCHANGED <<pc, stack, waits, log, result, hpc,
                                 pendingUnlink, stale, sizeAborted>>
    /\ UNCHANGED <<maxRetries, initReqs, confirmReqs, resp, candidate,
                   transfers, pendingOpen, files, caller, msgText, fileId, observed,
                   sweepVars, extVars>>

\* stream.on('end'): writeStream.end(); resolve(fileSize).  The result goes
\* back through every frame to the caller in the same turn.
streamToFile_end ==
    /\ pc = "streaming"
    /\ ws' = [ws EXCEPT !.state = "ending"]
    /\ result' = OkResult(ws.path, fileSize)
    /\ stack' = <<>>
    /\ pc' = "returned"
    /\ transfers' = transfers - 1
    /\ hpc' = AfterDownload(caller, result')
    /\ UNCHANGED <<maxRetries, initReqs, confirmReqs, waits, log, resp,
                   candidate, fileSize, sizeAborted, pendingOpen, pendingUnlink,
                   stale, files, caller, msgText, fileId, observed, sweepVars, extVars>>

\* stream.on('error'): the connection breaks in the middle of the body
streamToFile_error ==
    /\ pc = "streaming"
    /\ ws' = [ws EXCEPT !.state = "destroyed", !.buffered = 0]
    /\ pendingUnlink' = pendingUnlink \cup {ws.path}
    /\ Throw(Err("StreamError"))
    /\ transfers' = transfers - 1
    /\ UNCHANGED <<maxRetries, initReqs, confirmReqs, resp, candidate, fileSize,
                   sizeAborted, pendingOpen, stale, files, caller, msgText,
                   fileId, observed, sweepVars, extVars>>

\* writeStream.on('error'): the disk write fails; the partial file is
\* unlinked and the promise rejected (a no-op once it has been resolved)
streamToFile_writeError ==
    /\ ws.state \in {"open", "ending"}
    /\ ws.buffered > 0 \/ ws.path \in pendingOpen
    /\ ws' = [ws EXCEPT !.state = "destroyed", !.buffered = 0]
    /\ pendingUnlink' = pendingUnlink \cup {ws.path}
    /\ IF pc = "streaming"
       THEN Throw(Err("WriteError"))
       ELSE UNCHANGED <<pc, stack, waits, log, result, hpc>>
    /\ UNCHANGED <<transfers, maxRetries, initReqs, confirmReqs, resp, candidate, fileSize,
                   sizeAborted, pendingOpen, stale, files, caller, msgText,
                   fileId, observed, sweepVars, extVars>>

\* after the size abort the response stream is not destroyed: until the
\* closed write stream unpipes it, a further chunk runs the data handler
\* again, which unlinks filePath again
streamToFile_staleData ==
    /\ \E p \in stale :
          /\ p \notin pendingUnlink
          /\ pendingUnlink' = pendingUnlink \cup {p}
    /\ UNCHANGED <<dlVars, ws, pendingOpen, stale, files, hVars, sweepVars, extVars>>

\* the destroyed write stream emits 'close'; the pipe pauses the source
streamToFile_destClosed ==
    /\ \E p \in stale : stale' = stale \ {p}
    /\ UNCHANGED <<dlVars, ws, pendingOpen, pendingUnlink, files, hVars, sweepVars, extVars>>

(***************************************************************************)
(* The file system completes what it was asked to do.                      *)
(***************************************************************************)
\* fs.open(path, 'w') of a write stream: creates or truncates the file
FsOpenDone ==
    /\ \E p \in pendingOpen :
          /\ pendingOpen' = pendingOpen \ {p}
          /\ files' = [files EXCEPT ![p] = 0]
    /\ UNCHANGED <<dlVars, ws, pendingUnlink, stale, hVars, sweepVars, extVars>>

\* buffered chunks reach the disk (bytes written through a descriptor
\* whose path was unlinked do not show at the path)
FsWriteDone ==
    /\ ws.state \in {"open", "ending"}
    /\ ws.path \notin pendingOpen
    /\ ws.buffered > 0
    /\ ws' = [ws EXCEPT !.buffered = 0]
    /\ files' = [files EXCEPT ![ws.path] = IF @ = Absent THEN Absent ELSE @ + ws.buffered]
    /\ UNCHANGED <<dlVars, pendingOpen, pendingUnlink, stale, hVars, sweepVars, extVars>>

\* 'finish' of the write stream: ended and everything flushed
WriteStreamFinish ==
    /\ ws.state = "ending"
    /\ ws.path \notin pendingOpen
    /\ ws.buffered = 0
    /\ ws' = [ws EXCEPT !.state = "finished"]
    /\ UNCHANGED <<dlVars, pendingOpen, pendingUnlink, stale, files, hVars, sweepVars, extVars>>

\* fs.unlink(filePath).catch(() => {})
FsUnlinkDone ==
    /\ \E p \in pendingUnlink :
          /\ pendingUnlink' = pendingUnlink \ {p}
          /\ files' = [files EXCEPT ![p] = Absent]
    /\ UNCHANGED <<dlVars, ws, pendingOpen, stale, hVars, sweepVars, extVars>>

(***************************************************************************)
(* The in-memory maps of the enhanced bot.  A history entry is the stamp   *)
(* of its creation (its id and downloadDate).                              *)
(***************************************************************************)
\* stats[metric] = (stats[metric] || 0) + 1 on the entry of userId
updateUserStats(stats, userId, metric) ==
    [stats EXCEPT ![userId] =
        IF metric = "message_count" THEN [@ EXCEPT !.message_count = @ + 1]
        ELSE [@ EXCEPT !.download_count = @ + 1]]

addToUserFileHistory_noSplice(userFiles, fileData) == <<fileData>> \o userFiles

\* userFiles.unshift(fileData); if (userFiles.length > 50) userFiles.splice(50)
addToUserFileHistory(userFiles, fileData) ==
    LET unshifted == <<fileData>> \o userFiles
    IN  IF Len(unshifted) > FileHistoryLimit
        THEN SubSeq(unshifted, 1, FileHistoryLimit)
        ELSE unshifted

RecordDelivery_noCount(userId) ==
    /\ fileHistory' = [fileHistory EXCEPT
                          ![userId] = addToUserFileHistory(@, histClock + 1)]
    /\ userStats' = userStats
    /\ histClock' = histClock + 1

\* handleEnhancedGoogleDriveLink after the file was delivered to userId:
\* the entry is stored and download_count is counted, without an await
\* in between
RecordDelivery(userId) ==
    /\ fileHistory' = [fileHistory EXCEPT
                          ![userId] = addToUserFileHistory(@, histClock + 1)]
    /\ userStats' = updateUserStats(userStats, userId, "download_count")
    /\ histClock' = histClock + 1

(***************************************************************************)
(* handleGoogleDriveLink / handleEnhancedGoogleDriveLink after the         *)
(* download returned.  Both have the same awaits around the temp file.     *)
(***************************************************************************)
\* editMessageText('Detecting file type...') settles
StatusEdit2 ==
    /\ hpc = "statusEdit2"
    /\ hpc' \in {"getFileType", "errorEdit"}
    /\ UNCHANGED <<caller, msgText, fileId, observed, dlVars, fsVars, sweepVars, extVars>>

\* getFileType(filePath) reads what is at the path now; it never throws
getFileType ==
    /\ hpc = "getFileType"
    /\ observed' = files[result.filePath]
    /\ hpc' = "send"
    /\ UNCHANGED <<caller, msgText, fileId, dlVars, fsVars, sweepVars, extVars>>

\* sendFileByType: fs.readFile, then the platform send; either may throw.
\* When it resolves, the enhanced bot stores the file in the sender's
\* history and counts the download before its next await.
sendFileByType ==
    /\ hpc = "send"
    /\ \/ /\ files[result.filePath] # Absent
          /\ hpc' = "remove"
          /\ IF caller = "enhanced" THEN RecordDelivery(Sender)
             ELSE UNCHANGED <<fileHistory, userStats, histClock>>
       \/ /\ hpc' = "errorEdit"
          /\ UNCHANGED <<fileHistory, userStats, histClock>>
    /\ UNCHANGED <<caller, msgText, fileId, observed, dlVars, fsVars, sweepVars,
                   conc, retry, uCall, uRet, disp, served, histOps, nesting, coolVars>>

\* await fs.remove(filePath): after the send, or before the throw of the
\* handler's own size check
RemoveTempFile ==
    /\ hpc \in {"remove", "removeOversize"}
    /\ files' = [files EXCEPT ![result.filePath] = Absent]
    /\ hpc' = IF hpc = "remove" THEN "deleteMsg" ELSE "errorEdit"
    /\ UNCHANGED <<caller, msgText, fileId, observed, dlVars, ws,
                   pendingOpen, pendingUnlink, stale, sweepVars, extVars>>

\* ctx.deleteMessage (and the success reply of the enhanced bot) settles
DeleteProcessingMessage ==
    /\ hpc = "deleteMsg"
    /\ hpc' \in {"done", "errorEdit"}
    /\ UNCHANGED <<caller, msgText, fileId, observed, dlVars, fsVars, sweepVars, extVars>>

\* the catch block: the status message is replaced by the error text
ErrorEdit ==
    /\ hpc = "errorEdit"
    /\ hpc' = "done"
    /\ UNCHANGED <<caller, msgText, fileId, observed, dlVars, fsVars, sweepVars, extVars>>

Next ==
    \/ DirectCall
    \/ ReceiveMessage
    \/ StatusEdit1
    \/ RespondError
    \/ RespondHtml
    \/ RespondBinary
    \/ HtmlBody
    \/ BackoffElapsed
    \/ generateUniqueFilePath
    \/ streamToFile_data
    \/ streamToFile_end
    \/ streamToFile_error
    \/ streamToFile_writeError
    \/ streamToFile_staleData
    \/ streamToFile_destClosed
    \/ FsOpenDone
    \/ FsWriteDone
    \/ WriteStreamFinish
    \/ FsUnlinkDone
    \/ StatusEdit2
    \/ getFileType
    \/ sendFileByType
    \/ RemoveTempFile
    \/ DeleteProcessingMessage
    \/ ErrorEdit

Spec == Init /\ [][Next]_vars

(***************************************************************************)
(* cleanupTempFiles and the timer that runs it, next to the message        *)
(* handlers that create and delete files of the same directory.            *)
(***************************************************************************)
\* maxAgeHours * 60 * 60 * 1000
maxAge(maxAgeHours) == maxAgeHours * 60 * 60 * 1000

IsOld_inclusive(now, mtime, maxAgeHours) == now - mtime >= maxAge(maxAgeHours)

\* if (now - stats.mtime.getTime() > maxAge)
IsOld(now, mtime, maxAgeHours) == now - mtime > maxAge(maxAgeHours)

\* names of a set in the order readdir lists them
RECURSIVE Listing(_)
Listing(S) ==
    IF S = {} THEN <<>>
    ELSE LET f == CHOOSE x \in S : \A y \in S : x <= y
         IN  <<f>> \o Listing(S \ {f})

\* a download writes a new temp file; its handler owns it
CreateTempFile ==
    /\ \E f \in FileNames :
          /\ dirFiles[f] = NoFile
          /\ dirFiles' = [dirFiles EXCEPT ![f] = [mtime |-> clock, owned |-> TRUE]]
          /\ touched' = IF spc \in {"stat", "remove"} THEN touched \cup {f} ELSE touched
    /\ UNCHANGED <<clock, spc, sweepList, sweepNow, sweepOld, dlVars, fsVars, hVars, extVars>>

\* the handler's fs.remove(filePath) after the file was sent
HandlerRemove ==
    /\ \E f \in FileNames :
          /\ dirFiles[f] # NoFile /\ dirFiles[f].owned
          /\ dirFiles' = [dirFiles EXCEPT ![f] = NoFile]
    /\ UNCHANGED <<clock, spc, sweepList, sweepNow, sweepOld, touched, dlVars,
                   fsVars, hVars, extVars>>

\* the handler ends without deleting its file (delivery threw, the process
\* crashed): the file is left for the sweep
HandlerLeak ==
    /\ \E f \in FileNames :
          /\ dirFiles[f] # NoFile /\ dirFiles[f].owned
          /\ dirFiles' = [dirFiles EXCEPT ![f].owned = FALSE]
    /\ UNCHANGED <<clock, spc, sweepList, sweepNow, sweepOld, touched, dlVars,
                   fsVars, hVars, extVars>>

\* setInterval fires after another 30 minutes: cleanupTempFiles(1) reads
\* the directory and the clock
cleanupTempFiles_start ==
    /\ spc \in {"off", "done"}
    /\ clock < MaxSweeps * CleanupIntervalMs
    /\ clock' = clock + CleanupIntervalMs
    /\ sweepNow' = clock'
    /\ sweepList' = Listing({f \in FileNames : dirFiles[f] # NoFile})
    /\ sweepOld' = {f \in FileNames :
                      dirFiles[f] # NoFile /\ clock' - dirFiles[f].mtime > 60 * 60 * 1000}
    /\ touched' = {}
    /\ spc' = "stat"
    /\ UNCHANGED <<dirFiles, dlVars, fsVars, hVars, extVars>>

\* await fs.stat(filePath) of the next listed file.  A file that is gone
\* makes stat throw: the catch block logs and the sweep is over.
cleanupTempFiles_stat ==
    /\ spc = "stat"
    /\ IF sweepList = <<>> THEN spc' = "done" /\ UNCHANGED sweepList
       ELSE LET f == Head(sweepList) IN
            IF dirFiles[f] = NoFile THEN spc' = "done" /\ UNCHANGED sweepList
            ELSE IF IsOld(sweepNow, dirFiles[f].mtime, CleanupMaxAgeHours)
                 THEN spc' = "remove" /\ UNCHANGED sweepList
                 ELSE spc' = "stat" /\ sweepList' = Tail(sweepList)
    /\ UNCHANGED <<dirFiles, clock, sweepNow, sweepOld, touched, dlVars, fsVars, hVars, extVars>>

\* await fs.remove(filePath)
cleanupTempFiles_remove ==
    /\ spc = "remove"
    /\ dirFiles' = [dirFiles EXCEPT ![Head(sweepList)] = NoFile]
    /\ sweepList' = Tail(sweepList)
    /\ spc' = "stat"
    /\ UNCHANGED <<clock, sweepNow, sweepOld, touched, dlVars, fsVars, hVars, extVars>>

SweepNext ==
    \/ CreateTempFile
    \/ HandlerRemove
    \/ HandlerLeak
    \/ cleanupTempFiles_start
    \/ cleanupTempFiles_stat
    \/ cleanupTempFiles_remove

SweepSpec == Init /\ [][SweepNext]_vars

(***************************************************************************)
(* Two messages handled at the same time.  Each handler awaits its own     *)
(* download; both responses declare the same file name, so both calls of   *)
(* generateUniqueFilePath test the same paths of the shared temp directory *)
(* (files).  Path k stands for <name>_<k><ext>, path 0 for the clean name. *)
(***************************************************************************)
concOther == <<dlVars, ws, pendingOpen, pendingUnlink, stale, hVars, sweepVars,
               retry, uCall, uRet, botVars, nesting, coolVars>>

\* the response of handler p's download has arrived: generateUniqueFilePath
\* is called and issues fs.pathExists for the clean name
ConcGenerateUniqueFilePath(p) ==
    /\ conc[p].pc = "idle"
    /\ conc' = [conc EXCEPT ![p] = [pc |-> "pathExists", counter |-> 1, filePath |-> 0]]
    /\ UNCHANGED <<files, concOther>>

\* fs.pathExists(filePath) settles: the next suffix is tried, or the path
\* is returned and streamToFile calls fs.createWriteStream(filePath)
ConcPathExists(p) ==
    /\ conc[p].pc = "pathExists"
    /\ IF files[conc[p].filePath] # Absent
       THEN /\ conc[p].counter <= MaxPath
            /\ conc' = [conc EXCEPT ![p].filePath = conc[p].counter,
                                    ![p].counter = @ + 1]
       ELSE conc' = [conc EXCEPT ![p].pc = "createWriteStream"]
    /\ UNCHANGED <<files, concOther>>

\* the open of the write stream completes: the file is created or truncated
ConcOpenDone(p) ==
    /\ conc[p].pc = "createWriteStream"
    /\ files' = [files EXCEPT ![conc[p].filePath] = 0]
    /\ conc' = [conc EXCEPT ![p].pc = "streaming"]
    /\ UNCHANGED concOther

\* the body has been written; the handler sends the file
ConcStreamEnd(p) ==
    /\ conc[p].pc = "streaming"
    /\ conc' = [conc EXCEPT ![p].pc = "downloaded"]
    /\ UNCHANGED <<files, concOther>>

\* await fs.remove(filePath) of the handler
ConcRemove(p) ==
    /\ conc[p].pc = "downloaded"
    /\ files' = [files EXCEPT ![conc[p].filePath] = Absent]
    /\ conc' = [conc EXCEPT ![p].pc = "done"]
    /\ UNCHANGED concOther

ConcNext ==
    \/ \E p \in Procs : ConcGenerateUniqueFilePath(p)
    \/ \E p \in Procs : ConcPathExists(p)
    \/ \E p \in Procs : ConcOpenDone(p)
    \/ \E p \in Procs : ConcStreamEnd(p)
    \/ \E p \in Procs : ConcRemove(p)

ConcSpec == Init /\ [][ConcNext]_vars

(***************************************************************************)
(* Functions without state of their own, applied to one argument at a      *)
(* time.  Strings are sequences of one-character strings.                  *)
(***************************************************************************)
\* One function is applied to one argument in a run (uCall = NoCall before).
utilOther == <<dlVars, fsVars, hVars, sweepVars, conc, retry, botVars, nesting, coolVars>>

(***************************************************************************)
(* generateUniqueFilePath(fileName) over file names.  A path is kept       *)
(* relative to config.TEMP_DIR: `up` levels above it, then `segs`.         *)
(***************************************************************************)
MaxName == 3          \* longest file name of a Content-Disposition that is tried
MaxTaken == 2         \* suffixed names <name>_1 .. that may be taken already

DigitChars == <<"0", "1", "2", "3", "4", "5", "6", "7", "8", "9">>

IsDangerous_keepSlash(ch) == ch \in {"<", ">", ":", "\"", "\\", "|", "?", "*"}

\* the class [<>:"/\\|?*]
IsDangerous(ch) == ch \in {"<", ">", ":", "\"", "/", "\\", "|", "?", "*"}

\* fileName.replace(/[<>:"/\\|?*]/g, '_')
cleanFileName(fileName) ==
    [i \in 1..Len(fileName) |-> IF IsDangerous(fileName[i]) THEN "_" ELSE fileName[i]]

LastIndexOf(str, ch) ==
    LET hits == {i \in 1..Len(str) : str[i] = ch}
    IN  IF hits = {} THEN 0 ELSE CHOOSE i \in hits : \A j \in hits : j <= i

\* the part of the path after its last "/"
LastSegment(str) == SubSeq(str, LastIndexOf(str, "/") + 1, Len(str))

\* path.extname: from the last "." of the last segment, unless there is
\* none, it is the first character, or the segment is ".."
extname(str) ==
    LET seg == LastSegment(str)
        dot == LastIndexOf(seg, ".")
    IN  IF dot <= 1 \/ seg = <<".", ".">> THEN <<>> ELSE SubSeq(seg, dot, Len(seg))

\* path.basename(p, ext): the last segment without the suffix ext
basename(str, ext) ==
    LET seg == LastSegment(str)
    IN  IF /\ ext # <<>>
           /\ Len(ext) < Len(seg)
           /\ SubSeq(seg, Len(seg) - Len(ext) + 1, Len(seg)) = ext
        THEN SubSeq(seg, 1, Len(seg) - Len(ext))
        ELSE seg

RECURSIVE Digits(_)
Digits(n) ==
    IF n < 10 THEN <<DigitChars[n + 1]>>
    ELSE Digits(n \div 10) \o <<DigitChars[(n % 10) + 1]>>

\* `${name}_${counter}${ext}`
newFileName(clean, counter) ==
    LET ext == extname(clean)
    IN  basename(clean, ext) \o <<"_">> \o Digits(counter) \o ext

RECURSIVE SplitPath(_)
SplitPath(str) ==
    LET cut == {i \in 1..Len(str) : str[i] = "/"}
    IN  IF cut = {} THEN <<str>>
        ELSE LET i == CHOOSE c \in cut : \A d \in cut : c <= d
             IN  <<SubSeq(str, 1, i - 1)>> \o SplitPath(SubSeq(str, i + 1, Len(str)))

RECURSIVE Normalize(_, _)
Normalize(p, segs) ==
    IF segs = <<>> THEN p
    ELSE LET s == Head(segs)
             q == IF s = <<>> \/ s = <<".">> THEN p
                  ELSE IF s = <<".", ".">>
                       THEN IF p.segs = <<>> THEN [p EXCEPT !.up = @ + 1]
                            ELSE [p EXCEPT !.segs = SubSeq(@, 1, Len(@) - 1)]
                  ELSE [p EXCEPT !.segs = Append(@, s)]
         IN  Normalize(q, Tail(segs))

\* path.join(config.TEMP_DIR, fileName)
JoinTempDir(fileName) == Normalize([up |-> 0, segs |-> <<>>], SplitPath(fileName))

\* fs.pathExists(p) when the temp directory holds the files of dir:
\* TEMP_DIR itself (fs.ensureDir) and the directories above it exist
pathExists(p, dir) ==
    IF p.segs = <<>> THEN TRUE
    ELSE p.up = 0 /\ Len(p.segs) = 1 /\ p.segs[1] \in dir

RECURSIVE UniquePathLoop(_, _, _, _)
UniquePathLoop(clean, filePath, counter, dir) ==
    IF pathExists(filePath, dir)
    THEN UniquePathLoop(clean, JoinTempDir(newFileName(clean, counter)), counter + 1, dir)
    ELSE filePath

\* generateUniqueFilePath(fileName) with dir the content of the temp directory
uniqueFilePath(fileName, dir) ==
    LET clean == cleanFileName(fileName)
    IN  UniquePathLoop(clean, JoinTempDir(clean), 1, dir)

RECURSIVE SeqsUpTo(_, _)
SeqsUpTo(S, n) ==
    IF n = 0 THEN {<<>>}
    ELSE LET shorter == SeqsUpTo(S, n - 1)
         IN  shorter \cup {Append(s, c) : s \in shorter, c \in S}

\* file names over a letter, the dot and the separator; the temp directory
\* may hold the clean name and suffixed names
Call_generateUniqueFilePath ==
    /\ uCall = NoCall
    /\ \E fileName \in SeqsUpTo({"a", ".", "/"}, MaxName) \ {<<>>} :
       \E dir \in SUBSET ({cleanFileName(fileName)}
                             \cup {newFileName(cleanFileName(fileName), k) :
                                      k \in 1..MaxTaken}) :
          /\ uCall' = [fn |-> "generateUniqueFilePath", fileName |-> fileName, dir |-> dir]
          /\ uRet' = uniqueFilePath(fileName, dir)
    /\ UNCHANGED utilOther

(***************************************************************************)
(* url-parser.js applied to the link shapes of its own comments.           *)
(***************************************************************************)
UrlShapes ==
    {"view", "viewSharing", "open", "document", "spreadsheets", "presentation",
     "ucIdFirst", "ucIdLast", "edit", "other"}

UrlOfShape(shape, id) ==
    LET docs(kind) == <<"https://", "docs.google.com", kind>> \o id \o <<"/edit">>
        drive == <<"https://", "drive.google.com">>
    IN  CASE shape = "view" -> UrlView(id)
          [] shape = "viewSharing" -> UrlView(id) \o <<"?", "usp=sharing">>
          [] shape = "open" -> UrlOpen(id)
          [] shape = "document" -> docs("/document/d/")
          [] shape = "spreadsheets" -> docs("/spreadsheets/d/")
          [] shape = "presentation" -> docs("/presentation/d/")
          [] shape = "ucIdFirst" ->
               drive \o <<"/uc", "?", "id=">> \o id \o <<"&", "export=download">>
          [] shape = "ucIdLast" ->
               drive \o <<"/uc", "?", "export=download", "&", "id=">> \o id
          [] shape = "edit" -> drive \o <<"/file/d/">> \o id \o <<"/edit">>
          [] OTHER -> UrlOther

\* an identifier of n characters that mixes the allowed classes
MixedId(n) == [i \in 1..n |-> CASE i % 5 = 0 -> "a" [] i % 5 = 1 -> "7" [] i % 5 = 2 -> "Z"
                                 [] i % 5 = 3 -> "_" [] OTHER -> "-"]

Call_parseGoogleDriveUrl ==
    /\ uCall = NoCall
    /\ \E shape \in UrlShapes,
          id \in {MkId(n, FALSE) : n \in {1, 19, MinFileIdLen}}
                   \cup {MixedId(33), MixedId(44)} :
          LET url == UrlOfShape(shape, id) IN
          /\ uCall' = [fn |-> "parseGoogleDriveUrl", shape |-> shape, id |-> id, url |-> url]
          /\ uRet' = [fileId |-> parseGoogleDriveUrl(url), valid |-> isValidGoogleDriveUrl(url)]
    /\ UNCHANGED utilOther

\* non-strings, the empty string, identifiers of the lengths around both
\* limits, and the same with one character outside the class at either end
Call_isValidFileId ==
    /\ uCall = NoCall
    /\ LET lengths == {1, MinFileIdLen - 1, MinFileIdLen, MinFileIdLen + 1,
                        MaxFileIdLen - 1, MaxFileIdLen, MaxFileIdLen + 1}
           with(n, pos, ch) == [i \in 1..n |-> IF i = pos THEN ch ELSE MixedId(n)[i]]
           inputs ==
               {Null, Undef, Num, Str(<<>>)}
                 \cup {Str(MixedId(n)) : n \in lengths}
                 \cup UNION {{Str(with(n, pos, ch)) :
                                  pos \in {1, n}, ch \in {BadChar, " ", ".", "/", "\n"}} :
                                 n \in lengths}
       IN  \E id \in inputs :
          /\ uCall' = [fn |-> "isValidFileId", fileId |-> id]
          /\ uRet' = isValidFileId(id)
    /\ UNCHANGED utilOther

(***************************************************************************)
(* extractConfirmationToken(htmlContent).  The body is a sequence of       *)
(* tokens: the literal pieces of the four patterns are one token each,     *)
(* every other character is a token of its own.                            *)
(***************************************************************************)
MaxToken == 2         \* longest confirmation token built from every character

\* the tokens that hold a double quote
QuoteTokens == {"name=\"confirm\"", "value=\"", "\"confirm\":\"", "\"", "href=\""}

\* "([^"]+)": the run without a quote from position j, closed by a quote
QuotedAt(body, j) ==
    LET e == CHOOSE e \in (j - 1)..Len(body) :
                 /\ \A k \in j..e : body[k] \notin QuoteTokens
                 /\ (e = Len(body) \/ body[e + 1] \in QuoteTokens)
    IN  IF e >= j /\ e < Len(body) /\ body[e + 1] = "\"" THEN SubSeq(body, j, e) ELSE <<>>

Leftmost(hits) == CHOOSE i \in hits : \A j \in hits : i <= j

confirmParam_firstChar(body) ==
    LET c == FirstCapture(body, <<"confirm=">>)
    IN  IF c = <<>> THEN <<>> ELSE <<c[1]>>

\* /confirm=([a-zA-Z0-9_-]+)/
confirmParam(body) == FirstCapture(body, <<"confirm=">>)

\* /name="confirm"\s+value="([^"]+)"/
confirmInput(body) ==
    LET \* the greedy run \s+ starting at position j
        SpaceRun(b, j) ==
            LET e == CHOOSE e \in (j - 1)..Len(b) :
                         /\ \A k \in j..e : b[k] \in {" ", "\n"}
                         /\ (e = Len(b) \/ b[e + 1] \notin {" ", "\n"})
            IN  SubSeq(b, j, e)
        at(i) == IF i <= Len(body) /\ body[i] = "name=\"confirm\""
                 THEN LET sp == SpaceRun(body, i + 1)
                          v == i + 1 + Len(sp)
                      IN  IF sp # <<>> /\ v <= Len(body) /\ body[v] = "value=\""
                          THEN QuotedAt(body, v + 1) ELSE <<>>
                 ELSE <<>>
        hits == {i \in 1..Len(body) : at(i) # <<>>}
    IN  IF hits = {} THEN <<>> ELSE at(Leftmost(hits))

\* /\&confirm=([a-zA-Z0-9_-]+)/
confirmAmpParam(body) == FirstCapture(body, <<"&", "confirm=">>)

\* /"confirm":"([^"]+)"/
confirmJson(body) ==
    LET at(i) == IF body[i] = "\"confirm\":\"" THEN QuotedAt(body, i + 1) ELSE <<>>
        hits == {i \in 1..Len(body) : at(i) # <<>>}
    IN  IF hits = {} THEN <<>> ELSE at(Leftmost(hits))

\* the patterns in the order they are tried; null for a value that is not
\* a non-empty string and when no pattern matches
extractConfirmationToken(htmlContent) ==
    IF Falsy(htmlContent) \/ htmlContent.type # "string" THEN Null
    ELSE LET body == htmlContent.chars
             ms == <<confirmParam(body), confirmInput(body),
                     confirmAmpParam(body), confirmJson(body)>>
             ks == {k \in 1..4 : ms[k] # <<>>}
         IN  IF ks = {} THEN Null ELSE Str(ms[Leftmost(ks)])

\* pages that carry a token in the form the k-th pattern looks for, and
\* pages without a token in any of the forms
Call_extractConfirmationToken ==
    LET PageHead == <<"<", "a", " ", "href=\"", "/", "u", "c", "?">>
        PageWith(k, token, sp) ==
            CASE k = 1 -> PageHead \o <<"confirm=">> \o token \o <<"\"", ">">>
              [] k = 2 -> <<"<", "i", " ", "name=\"confirm\"">> \o sp \o <<"value=\"">> \o token
                             \o <<"\"", ">">>
              [] k = 3 -> PageHead \o <<"t", "&", "confirm=">> \o token
                             \o <<"&", "i", "d", "=", "a">>
              [] OTHER -> <<"{", "\"confirm\":\"">> \o token \o <<"\"", "}">>
        PagesWithout ==
            {Null, Undef, Str(<<>>), Str(<<"<", "p", ">">>),
             Str(PageHead \o <<"confirm=", "\"">>),
             Str(<<"name=\"confirm\"", "value=\"", "a", "\"">>),
             Str(<<"\"confirm\":\"", "\"">>)}
        ConfirmTokens ==
            (SeqsUpTo(TokenAlphabet, MaxToken) \ {<<>>}) \cup {MixedId(9), <<"a", ".", "Z">>}
    IN
    /\ uCall = NoCall
    /\ \/ \E k \in 1..4, token \in ConfirmTokens, sp \in {<<" ">>, <<"\n", " ">>} :
             LET page == Str(PageWith(k, token, sp)) IN
             /\ uCall' = [fn |-> "extractConfirmationToken", pattern |-> k,
                          token |-> token, htmlContent |-> page]
             /\ uRet' = extractConfirmationToken(page)
       \/ \E page \in PagesWithout :
             /\ uCall' = [fn |-> "extractConfirmationToken", pattern |-> 0,
                          token |-> <<>>, htmlContent |-> page]
             /\ uRet' = extractConfirmationToken(page)
    /\ UNCHANGED utilOther

(***************************************************************************)
(* determineSendMethod(fileType, fileName).  A MIME type is the pair of    *)
(* its parts before and after "/"; a file name is its stem followed by its *)
(* extension, dot included.                                                *)
(***************************************************************************)
SUPPORTED_VIDEO_TYPES ==
    {<<"video", "mp4">>, <<"video", "mpeg">>, <<"video", "quicktime">>,
     <<"video", "x-msvideo">>, <<"video", "x-ms-wmv">>, <<"video", "x-matroska">>,
     <<"video", "webm">>}

SUPPORTED_IMAGE_TYPES ==
    {<<"image", "jpeg">>, <<"image", "png">>, <<"image", "gif">>,
     <<"image", "webp">>, <<"image", "bmp">>, <<"image", "tiff">>}

NoMime == <<>>
FileType(m) == [kind |-> "object", mime |-> m]
NoFileType == [kind |-> "undefined", mime |-> NoMime]

\* the method of the recommendation that is returned
determineSendMethod(fileType, fileName) ==
    LET \* fileType?.mime || 'application/octet-stream'
        mimeType == IF fileType.kind # "object" \/ fileType.mime = NoMime
                    THEN <<"application", "octet-stream">>
                    ELSE fileType.mime
        toLowerCase(piece) ==
            CASE piece \in {".GIF", ".Gif"} -> ".gif"
              [] piece = "A" -> "a"
              [] OTHER -> piece
        \* fileName.toLowerCase().endsWith('.gif')
        EndsWithGif == fileName # <<>> /\ toLowerCase(fileName[Len(fileName)]) = ".gif"
    IN  \* config.SUPPORTED_VIDEO_TYPES.includes(mimeType)
        IF mimeType \in SUPPORTED_VIDEO_TYPES THEN "sendVideo"
        ELSE IF mimeType \in SUPPORTED_IMAGE_TYPES THEN "sendPhoto"
        \* mimeType.startsWith('audio/')
        ELSE IF mimeType[1] = "audio" THEN "sendAudio"
        ELSE IF mimeType = <<"image", "gif">> \/ EndsWithGif THEN "sendAnimation"
        ELSE "sendDocument"

Call_determineSendMethod ==
    /\ uCall = NoCall
    /\ LET mimes ==
               SUPPORTED_VIDEO_TYPES \cup SUPPORTED_IMAGE_TYPES
                 \cup {<<"audio", "mpeg">>, <<"audio", "ogg">>, <<"application", "pdf">>,
                        <<"application", "octet-stream">>, <<"text", "plain">>,
                        <<"image", "svg+xml">>, <<"video", "3gpp">>}
           fileTypes == {NoFileType, FileType(NoMime)} \cup {FileType(m) : m \in mimes}
           fileNames ==
               {<<>>, <<"a", ".pdf">>, <<"A", ".mp4">>, <<"a", ".gif">>, <<"a", ".GIF">>,
                <<".gif">>, <<"gif">>, <<"a", ".gif", ".pdf">>}
       IN  \E fileType \in fileTypes, fileName \in fileNames :
          /\ uCall' = [fn |-> "determineSendMethod", fileType |-> fileType,
                       fileName |-> fileName]
          /\ uRet' = determineSendMethod(fileType, fileName)
    /\ UNCHANGED utilOther

(***************************************************************************)
(* sendFileByType(ctx, filePath, fileName, fileType) of both bots: the     *)
(* reply method that is awaited, named by the Bot API method it performs.  *)
(***************************************************************************)
replyMethod(fileType) ==
    IF fileType.kind = "object" /\ fileType.mime # NoMime
    THEN \* fileType.mime.startsWith('video/') / startsWith('image/')
         IF fileType.mime[1] = "video" THEN "sendVideo"
         ELSE IF fileType.mime[1] = "image" THEN "sendPhoto"
         ELSE "sendDocument"
    ELSE "sendDocument"

\* the bot sends a downloaded file whose type was detected as fileType;
\* the recommendation of determineSendMethod is recorded next to it
Call_sendFileByType ==
    /\ uCall = NoCall
    /\ LET mimes ==
               {<<"video", "mp4">>, <<"video", "webm">>, <<"image", "png">>,
                <<"image", "jpeg">>, <<"audio", "mpeg">>, <<"audio", "ogg">>,
                <<"application", "pdf">>, <<"application", "zip">>,
                <<"text", "plain">>}
           fileTypes == {NoFileType, FileType(NoMime)} \cup {FileType(m) : m \in mimes}
       IN  \E bot \in {"basic", "enhanced"}, fileType \in fileTypes,
              fileName \in {<<"a", ".pdf">>, <<"a", ".mp4">>, <<"a", ".mp3">>, <<"a">>} :
          /\ uCall' = [fn |-> "sendFileByType", bot |-> bot, fileType |-> fileType,
                       fileName |-> fileName]
          /\ uRet' = [invoked |-> replyMethod(fileType),
                      recommended |-> determineSendMethod(fileType, fileName)]
    /\ UNCHANGED utilOther

(***************************************************************************)
(* getFileType(filePath).  What the file-type library finds in the file    *)
(* and in the buffer, and whether a read fails, is given by the            *)
(* environment: NoMime for "nothing found", a MIME pair for a type.        *)
(* mime.getType is the lookup table of the mime package, of which the      *)
(* entries for pdf, txt and bin are kept.                                  *)
(***************************************************************************)
Detection(mime, method, confidence) ==
    [kind |-> "return", mime |-> mime, method |-> method, confidence |-> confidence]

fileTypeOf_extensionFirst(fromFile, extension, readFile, fromBuffer) ==
    IF extension = ".pdf" THEN Detection(<<"application", "pdf">>, "extension", "medium")
    ELSE IF fromFile \notin {NoMime, <<"throws">>}
         THEN Detection(fromFile, "magic-numbers", "high")
         ELSE Detection(<<"application", "octet-stream">>, "default", "low")

\* the result of getFileType.  fromFile: the outcome of fileTypeFromFile; extension: path.extname of the
\* path; readFile: whether fs.readFile resolves; fromBuffer: the outcome of
\* fileTypeFromBuffer.  <<"throws">> stands for a rejected promise.
fileTypeOf(fromFile, extension, readFile, fromBuffer) ==
    LET toLower == IF extension = ".PDF" THEN ".pdf" ELSE extension
        \* mime.getType(extension)
        mimeType == CASE toLower = ".pdf" -> <<"application", "pdf">>
                      [] toLower = ".txt" -> <<"text", "plain">>
                      [] toLower = ".bin" -> <<"application", "octet-stream">>
                      [] OTHER -> NoMime
        fallback == Detection(<<"application", "octet-stream">>, "error-fallback", "low")
    IN  IF fromFile = <<"throws">> THEN fallback
        ELSE IF fromFile # NoMime THEN Detection(fromFile, "magic-numbers", "high")
        ELSE IF toLower # "" /\ mimeType # NoMime
             THEN Detection(mimeType, "extension", "medium")
        ELSE IF ~readFile \/ fromBuffer = <<"throws">> THEN fallback
        ELSE IF fromBuffer # NoMime THEN Detection(fromBuffer, "buffer-analysis", "high")
        ELSE Detection(<<"application", "octet-stream">>, "default", "low")

Call_getFileType ==
    /\ uCall = NoCall
    /\ LET sniffed == {NoMime, <<"throws">>, <<"image", "png">>, <<"application", "pdf">>}
       IN  \E fromFile \in sniffed, fromBuffer \in sniffed, readFile \in BOOLEAN,
              extension \in {"", ".pdf", ".PDF", ".txt", ".bin", ".zzz"} :
          /\ uCall' = [fn |-> "getFileType", fromFile |-> fromFile,
                       extension |-> extension, readFile |-> readFile,
                       fromBuffer |-> fromBuffer]
          /\ uRet' = fileTypeOf(fromFile, extension, readFile, fromBuffer)
    /\ UNCHANGED utilOther

(***************************************************************************)
(* generateUserErrorMessage(error) of the enhanced bot and of the error    *)
(* middleware.  A message is a sequence of pieces; includes is the         *)
(* case-sensitive search for a run of pieces.  The result is named by the  *)
(* reply that is returned.                                                 *)
(***************************************************************************)
generateUserErrorMessage(version, code, errorMessage, development) ==
    LET includes(pattern) ==
            \E i \in 1..(Len(errorMessage) - Len(pattern) + 1) :
                SubSeq(errorMessage, i, i + Len(pattern) - 1) = pattern
        has(piece) == includes(<<piece>>)
    IN  IF code = 429 THEN "rateLimited"
        ELSE IF code = 403 THEN "noPermission"
        ELSE IF version = "middleware" /\ code = 400 /\ has("Bad Request")
             THEN IF has("message is too long") THEN "messageTooLong"
                  ELSE IF has("file size") THEN "fileSizeLimit"
                  ELSE "invalidRequest"
        ELSE IF has("file size") /\ has("exceeds") THEN "fileTooLarge"
        ELSE IF has("not found") \/ has("404") THEN "fileNotFound"
        ELSE IF has("access denied") \/ has("403")
                  \/ (version = "enhanced" /\ has("permission")) THEN "accessDenied"
        ELSE IF version = "enhanced"
             THEN IF includes(<<"Could not extract ", "file ID">>) THEN "noFileId"
                  ELSE IF has("Download failed") THEN "downloadFailed"
                  ELSE IF has("Could not retrieve the Google Drive link") THEN "noLink"
                  ELSE "unexpected"
        ELSE IF has("timeout") \/ has("ECONNABORTED") THEN "timedOut"
        ELSE IF has("network") \/ has("ENOTFOUND") \/ has("ECONNREFUSED") THEN "network"
        ELSE IF has("virus scan") \/ has("confirmation") THEN "virusScan"
        ELSE IF has("quota") \/ has("limit exceeded") THEN "quota"
        ELSE IF has("file ID") THEN "invalidLink"
        ELSE IF has("unsupported") /\ has("type") THEN "unsupportedType"
        ELSE IF development THEN "developmentError"
        ELSE "somethingWentWrong"

\* the errors the download path raises, by the place that raises them; mb
\* is the rendering of Math.round(size / 1024 / 1024)
Call_generateUserErrorMessage ==
    /\ uCall = NoCall
    /\ LET limit == <<"exceeds", " the limit of ", "50", "MB">>
           tail == <<"MB) ">> \o limit
           messageOf(cause, mb) ==
               CASE cause \in {"declared", "handlerCheck"} -> <<"File size", " (", mb>> \o tail
                 [] cause = "midStream" -> <<"File size", " ">> \o limit
                 [] cause = "noFileId" -> <<"Could not extract ", "file ID", " from the URL">>
                 [] cause = "timeout" -> <<"timeout", " of 30000ms exceeded">>
                 [] cause = "telegram" -> <<"400: ", "Bad Request", ": ", "message is too long">>
                 [] OTHER -> <<"Download failed", " after all retry attempts">>
       IN  \E version \in {"enhanced", "middleware"}, development \in BOOLEAN,
              cause \in {"declared", "midStream", "handlerCheck", "noFileId", "timeout",
                         "telegram", "exhausted"},
              mb \in {"50", "51", "404"} :
          /\ uCall' = [fn |-> "generateUserErrorMessage", version |-> version,
                       cause |-> cause, errorMessage |-> messageOf(cause, mb)]
          /\ uRet' = generateUserErrorMessage(version, IF cause = "telegram" THEN 400 ELSE 0,
                                              messageOf(cause, mb), development)
    /\ UNCHANGED utilOther

(***************************************************************************)
(* The admin module of the enhanced bot: the handlers of /admin and of the *)
(* admin_dashboard and admin_users buttons, named by what the sender is    *)
(* shown.  (The views behind admin_stats, admin_broadcast and              *)
(* admin_user_<id> are called but not defined in the source at hand.)      *)
(***************************************************************************)
adminHandler(action, userId, adminUsers) ==
    LET \* isAdmin: config.ADMIN_USERS.includes(userId)
        isAdmin(id, admins) == id \in admins
    IN
    CASE action \in {"/admin", "admin_dashboard"} ->
           IF isAdmin(userId, adminUsers) THEN "showAdminDashboard" ELSE "accessDenied"
      [] action = "admin_users" -> "showUserManagement"

Call_adminHandler ==
    /\ uCall = NoCall
    /\ \E action \in {"/admin", "admin_dashboard", "admin_users"},
          userId \in 1..3, adminUsers \in SUBSET (1..2) :
          /\ uCall' = [fn |-> "admin", action |-> action, userId |-> userId,
                       adminUsers |-> adminUsers]
          /\ uRet' = adminHandler(action, userId, adminUsers)
    /\ UNCHANGED utilOther

\* generateDownloadUrl: throws for an identifier isValidFileId rejects
generateDownloadUrl(id) ==
    IF ~isValidFileId(id)
    THEN [kind |-> "throw", message |-> "Invalid file ID provided"]
    ELSE [kind |-> "value",
          url |-> <<"https://drive.google.com/uc?export=download&id=">> \o id.chars]

\* analyzeGoogleDriveUrl: null for a text no pattern matches, else the
\* information object; an exception of a call made while the object
\* literal is built leaves the function, there is no try around it
analyzeGoogleDriveUrl(url) ==
    LET id == parseGoogleDriveUrl(url)
        ms == GOOGLE_DRIVE_PATTERNS(url)
        ks == {k \in 1..5 : ms[k] # <<>>}
        names == <<"standardView", "openFormat", "docsFormat", "directDownload",
                   "editFormat">>
        \* getUrlFormat: the name of the first pattern that matches
        format == names[CHOOSE k \in ks : \A j \in ks : k <= j]
        downloadUrl == generateDownloadUrl(id)
        \* normalizeGoogleDriveUrl
        sharingUrl == <<"https://drive.google.com/file/d/">> \o id.chars
                          \o <<"/view?usp=sharing">>
    IN  IF ~isValidGoogleDriveUrl(url) THEN [kind |-> "null"]
        ELSE IF Falsy(id) THEN [kind |-> "null"]
        ELSE IF downloadUrl.kind = "throw" THEN downloadUrl
        ELSE [kind |-> "object", originalUrl |-> url, fileId |-> id,
              format |-> format, downloadUrl |-> downloadUrl.url,
              sharingUrl |-> sharingUrl, isValidFileId |-> isValidFileId(id)]

\* links of every shape with identifiers below, at and above both limits
Call_analyzeGoogleDriveUrl ==
    /\ uCall = NoCall
    /\ \E shape \in UrlShapes,
          n \in {1, MinFileIdLen - 1, MinFileIdLen, MaxFileIdLen, MaxFileIdLen + 1} :
          LET url == UrlOfShape(shape, MixedId(n)) IN
          /\ uCall' = [fn |-> "analyzeGoogleDriveUrl", shape |-> shape, n |-> n, url |-> url]
          /\ uRet' = analyzeGoogleDriveUrl(url)
    /\ UNCHANGED utilOther

UtilNext ==
    \/ Call_analyzeGoogleDriveUrl
    \/ Call_adminHandler
    \/ Call_generateUserErrorMessage
    \/ Call_getFileType
    \/ Call_generateUniqueFilePath
    \/ Call_parseGoogleDriveUrl
    \/ Call_isValidFileId
    \/ Call_extractConfirmationToken
    \/ Call_determineSendMethod
    \/ Call_sendFileByType

UtilSpec == Init /\ [][UtilNext]_vars

(***************************************************************************)
(* retryOperation(operation, options): the generic retry wrapper.          *)
(* retry.outcomes lists how each invocation of operation settled.          *)
(***************************************************************************)
MaxRetryBudget == 6   \* largest options.maxRetries given to retryOperation

RetryDefaultMaxRetries == 3
RetryDefaultBaseDelay == 1000
RetryDefaultMaxDelay == 10000

retryOther == <<dlVars, fsVars, hVars, sweepVars, conc, uCall, uRet, botVars, nesting, coolVars>>

\* an option a caller may give; a missing key takes the default of the
\* destructuring
OptionOr(option, default) == IF option = {} THEN default ELSE CHOOSE n \in option : TRUE

\* retryCondition(error); the default is () => true
retryCondition(kind, error) == kind = "default"

LoopContinues_strict(attempt, max) == attempt < max

\* the loop condition attempt <= maxRetries
LoopContinues(attempt, max) == attempt <= max

\* Math.min(baseDelay * Math.pow(2, attempt - 1), maxDelay)
RetryDelay(attempt, baseDelay, maxDelay) == Min(baseDelay * Pow2(attempt - 1), maxDelay)

\* what the k-th invocation of operation resolves with / rejects with
OperationValue(k) == [kind |-> "value", of |-> k]
OperationError(k) == [kind |-> "error", of |-> k]

\* retryOperation is called: the loop is entered and operation is invoked
\* for attempt 1, or (maxRetries < 1) the loop is skipped and lastError,
\* still undefined, is thrown
retryOperation ==
    /\ retry.pc = "idle"
    /\ \E mr \in {{}} \cup {{n} : n \in 0..MaxRetryBudget},
          md \in {{}, {3 * RetryDefaultBaseDelay}},
          rc \in {"default", "never"} :
          LET max == OptionOr(mr, RetryDefaultMaxRetries)
              r == [RetryIdle EXCEPT !.maxRetries = max,
                                     !.baseDelay = RetryDefaultBaseDelay,
                                     !.maxDelay = OptionOr(md, RetryDefaultMaxDelay),
                                     !.retryCondition = rc,
                                     !.attempt = 1]
          IN  retry' = IF LoopContinues(1, max)
                       THEN [r EXCEPT !.pc = "operation"]
                       ELSE [r EXCEPT !.pc = "thrown", !.value = r.lastError]
    /\ UNCHANGED retryOther

\* return await operation()
retryOperation_return ==
    /\ retry.pc = "operation"
    /\ retry' = [retry EXCEPT !.pc = "returned",
                              !.outcomes = Append(@, "ok"),
                              !.value = OperationValue(Len(retry.outcomes) + 1)]
    /\ UNCHANGED retryOther

\* catch (error): rethrow, or compute the delay and start the timer
retryOperation_catch ==
    /\ retry.pc = "operation"
    /\ LET error == OperationError(Len(retry.outcomes) + 1)
           r == [retry EXCEPT !.outcomes = Append(@, "err"), !.lastError = error]
       IN  retry' =
             IF \/ ~retryCondition(retry.retryCondition, error)
                \/ retry.attempt = retry.maxRetries
             THEN [r EXCEPT !.pc = "thrown", !.value = error]
             ELSE [r EXCEPT !.pc = "delay",
                            !.delays = Append(@, RetryDelay(retry.attempt, retry.baseDelay,
                                                            retry.maxDelay))]
    /\ UNCHANGED retryOther

\* the timer fires: attempt++; operation is invoked again, or the loop is
\* left and lastError thrown
retryOperation_delayElapsed ==
    /\ retry.pc = "delay"
    /\ retry' = IF LoopContinues(retry.attempt + 1, retry.maxRetries)
                THEN [retry EXCEPT !.pc = "operation", !.attempt = @ + 1]
                ELSE [retry EXCEPT !.pc = "thrown", !.attempt = @ + 1,
                                   !.value = retry.lastError]
    /\ UNCHANGED retryOther

RetryNext ==
    \/ retryOperation
    \/ retryOperation_return
    \/ retryOperation_catch
    \/ retryOperation_delayElapsed

RetrySpec == Init /\ [][RetryNext]_vars

(***************************************************************************)
(* The two retry loops of the code base side by side: a run either         *)
(* exercises attemptDownload (through the downloader) or retryOperation,   *)
(* which the bots themselves never call.                                   *)
(***************************************************************************)
BackoffNext ==
    \/ retry.pc = "idle" /\ Next
    \/ caller = "none" /\ RetryNext

BackoffSpec == Init /\ [][BackoffNext]_vars

(***************************************************************************)
(* The file histories on their own: deliveries and deletions in any order. *)
(***************************************************************************)
\* a link of userId has been downloaded and delivered
HistoryAdd ==
    /\ histOps < MaxHistoryOps
    /\ \E userId \in Users : RecordDelivery(userId)
    /\ histOps' = histOps + 1
    /\ UNCHANGED <<baseVars, disp, served>>

\* the delete_file_<id> button: the entry with that id leaves the list of
\* the sender, or the sender is told that there is no such file.  The ids
\* tried are the newest, the oldest and a middle entry of either user, and
\* an id nobody has.
HistoryDelete ==
    /\ histOps < MaxHistoryOps
    /\ \E userId \in Users :
       \E id \in {0} \cup UNION {LET l == fileHistory[u] IN
                                       IF l = <<>> THEN {}
                                       ELSE {l[1], l[Len(l)], l[(Len(l) + 1) \div 2]} :
                                     u \in Users} :
          LET userFiles == fileHistory[userId]
              hits == {i \in 1..Len(userFiles) : userFiles[i] = id}
              fileIndex == IF hits = {} THEN 0 ELSE CHOOSE i \in hits : \A j \in hits : i <= j
          IN  fileHistory' =
                IF fileIndex = 0 THEN fileHistory
                ELSE [fileHistory EXCEPT
                        ![userId] = SubSeq(userFiles, 1, fileIndex - 1)
                                      \o SubSeq(userFiles, fileIndex + 1, Len(userFiles))]
    /\ histOps' = histOps + 1
    /\ UNCHANGED <<baseVars, disp, served, userStats, histClock>>

HistoryNext ==
    \/ HistoryAdd
    \/ HistoryDelete

\* the bot has run for a while: the sender's list is empty, one short of
\* the limit, or full
HistoryInit ==
    /\ DownloaderIdle /\ SweepIdle /\ ExtIdle /\ nesting = MaxDepth
    /\ \E n \in {0, FileHistoryLimit - 1, FileHistoryLimit} : BotAfter(n)

HistorySpec == HistoryInit /\ [][HistoryNext]_vars

(***************************************************************************)
(* How Telegraf hands an update to the middleware and handlers a bot has   *)
(* registered, in the order of registration.  A middleware is called as    *)
(* fn(ctx, next); the update goes on only when it calls next().            *)
(***************************************************************************)
\* ctx.message.text of an update, <<>> when it has none
TextOf(kind) ==
    CASE kind = "/start" -> <<"/", "start">>
      [] kind = "/admin" -> <<"/", "admin">>
      [] kind = "driveLink" -> UrlView(MkId(MinFileIdLen, FALSE))
      [] kind = "plainText" -> UrlOther
      [] OTHER -> <<>>

\* setupMiddleware and setupHandlers: what bot.use / bot.command / bot.on /
\* bot.action have registered
Chain(bot) ==
    IF bot = "basic"
    THEN <<"errorHandler", "requestLogger", "command", "text", "message">>
    ELSE <<"requestLogger", "command", "text", "action", "lateCommand">>

\* the filter of a registration: whether its handler runs for the update
Matches(bot, m, kind) ==
    CASE m = "command" -> kind = "/start"
      [] m = "lateCommand" -> kind = "/admin"
      [] m = "text" -> TextOf(kind) # <<>>
      [] m = "message" -> kind # "callback"
      [] m = "action" -> kind = "callback"
      [] OTHER -> TRUE

\* what the handler of a registration does for an update it runs for
HandlerOutcome(bot, m, kind) ==
    CASE m = "text" ->
           IF isValidGoogleDriveUrl(TextOf(kind)) THEN "handleGoogleDriveLink"
           ELSE IF bot = "basic" \/ TextOf(kind)[1] # "/" THEN "replySendValidLink"
           ELSE "nothing"
      [] m = "message" -> IF TextOf(kind) = <<>> THEN "replyTextOnly" ELSE "nothing"
      [] OTHER -> m

\* bot.handleUpdate: the update enters the chain
ReceiveUpdate ==
    /\ disp.pc = "idle"
    /\ Len(served) < MaxUpdates
    /\ \E bot \in {"basic", "enhanced"},
          kind \in {"/start", "/admin", "driveLink", "plainText", "photo", "callback"} :
          disp' = [pc |-> "chain", bot |-> bot, kind |-> kind, pos |-> 1]
    /\ UNCHANGED <<baseVars, served, histVars>>

\* the registration at disp.pos is called.  errorHandler(error, ctx) gets
\* the context as error and next as ctx: it logs, finds no reply method on
\* next (or fails on error.message.includes and logs that), and returns
\* without calling next.  The request logger awaits next().  A handler whose
\* filter does not match passes the update on; one that matches runs and
\* does not call next.
RunMiddleware ==
    /\ disp.pc = "chain"
    /\ LET m == Chain(disp.bot)[disp.pos]
           \* the chain returns; the request logger of the enhanced bot,
           \* resumed after next(), counts the message
           finish(outcome) ==
               /\ served' = Append(served, [bot |-> disp.bot, kind |-> disp.kind,
                                            by |-> m, outcome |-> outcome])
               /\ disp' = NoUpdate
               /\ userStats' = IF disp.bot = "enhanced"
                                THEN updateUserStats(userStats, Sender, "message_count")
                                ELSE userStats
           goOn ==
               IF disp.pos < Len(Chain(disp.bot))
               THEN disp' = [disp EXCEPT !.pos = @ + 1] /\ UNCHANGED <<served, userStats>>
               ELSE finish("unhandled")
       IN  CASE m = "errorHandler" -> finish("nothing")
             [] m = "requestLogger" -> goOn
             [] OTHER -> IF Matches(disp.bot, m, disp.kind)
                         THEN finish(HandlerOutcome(disp.bot, m, disp.kind))
                         ELSE goOn
    /\ UNCHANGED <<baseVars, fileHistory, histClock, histOps>>

DispatchNext ==
    \/ ReceiveUpdate
    \/ RunMiddleware

DispatchSpec == Init /\ [][DispatchNext]_vars

(***************************************************************************)
(* downloadGoogleDriveFile against a server that answers every request,    *)
(* the confirmation requests included, with an HTML page: each page makes  *)
(* handleVirusScanPage call attemptDownload again, which is followed down  *)
(* to MaxNesting frames.                                                   *)
(***************************************************************************)
PageServerNext ==
    \/ DirectCall
    \/ RespondHtml
    \/ HtmlBody
    \/ BackoffElapsed

PageServerInit ==
    DownloaderIdle /\ SweepIdle /\ ExtIdle /\ BotIdle /\ nesting = MaxNesting

PageServerSpec == PageServerInit /\ [][PageServerNext]_vars

(***************************************************************************)
(* Enhanced bot: checkCooldown and the clock it reads.                     *)
(***************************************************************************)
\* checkCooldown(userId, action, cooldownTime = 2000) at Date.now() = now:
\* the value returned and the map afterwards; the key `${userId}_${action}`
\* is the pair, the option {} stands for an omitted cooldownTime
checkCooldown_storesAlways(map, now, userId, action, option) ==
    LET key == <<userId, action>>
        cooldownTime == IF option = {} THEN 2000 ELSE CHOOSE t \in option : TRUE
        lastAction == IF key \in DOMAIN map /\ map[key] # 0 THEN map[key] ELSE 0
        set == [k \in DOMAIN map \cup {key} |-> IF k = key THEN now ELSE map[k]]
    IN  IF now - lastAction < cooldownTime
        THEN [ret |-> (cooldownTime - (now - lastAction) + 999) \div 1000, map |-> set]
        ELSE [ret |-> 0, map |-> set]

checkCooldown(map, now, userId, action, option) ==
    LET key == <<userId, action>>
        cooldownTime == IF option = {} THEN 2000 ELSE CHOOSE t \in option : TRUE
        \* this.cooldowns.get(key) || 0
        lastAction == IF key \in DOMAIN map /\ map[key] # 0 THEN map[key] ELSE 0
    IN  IF now - lastAction < cooldownTime
        THEN \* Math.ceil((cooldownTime - (now - lastAction)) / 1000)
             [ret |-> (cooldownTime - (now - lastAction) + 999) \div 1000, map |-> map]
        ELSE [ret |-> 0,
              map |-> [k \in DOMAIN map \cup {key} |-> IF k = key THEN now ELSE map[k]]]

cooldownOther == <<dlVars, fsVars, hVars, sweepVars, conc, retry, uCall, uRet, botVars,
                   nesting>>

\* a callback query of some user arrives and its handler checks the
\* cooldown; the refresh_status button is the caller in the code and leaves
\* cooldownTime out, "other" stands for a second action with its own time
CheckCooldown ==
    /\ \E userId \in Users, action \in {"refresh_status", "other"} :
          LET key == <<userId, action>>
              option == IF action = "refresh_status" THEN {} ELSE {1000}
              r == checkCooldown(cooldowns, cdNow, userId, action, option)
          IN  /\ cooldowns' = r.map
              /\ cdCall' = [fn |-> "checkCooldown", userId |-> userId, action |-> action,
                            cooldownTime |-> IF option = {} THEN 2000
                                             ELSE CHOOSE t \in option : TRUE,
                            now |-> cdNow, ret |-> r.ret,
                            last |-> IF key \in DOMAIN acceptedAt THEN acceptedAt[key]
                                     ELSE 0]
              /\ acceptedAt' = IF r.ret = 0
                               THEN [k \in DOMAIN acceptedAt \cup {key} |->
                                        IF k = key THEN cdNow ELSE acceptedAt[k]]
                               ELSE acceptedAt
    /\ UNCHANGED <<cdNow, cooldownOther>>

\* time passes between two callback queries
TimePasses ==
    /\ \E d \in {500, 1000, 2000} :
          /\ cdNow + d <= ProcessStart + MaxElapsed * 500
          /\ cdNow' = cdNow + d
    /\ UNCHANGED <<cooldowns, cdCall, acceptedAt, cooldownOther>>

CooldownNext ==
    \/ CheckCooldown
    \/ TimePasses

CooldownSpec == Init /\ [][CooldownNext]_vars

(***************************************************************************)
(* Properties of the download pipeline.                                    *)
(***************************************************************************)

\* C1: in one call of downloadGoogleDriveFile the initial download URL is
\* requested at most maxRetries times (3 when options.maxRetries is not
\* given); every failed attempt, a timeout included, is counted once and
\* followed by a wait only while attempts remain; and when every attempt
\* has failed, the error the call reports is the error of the last attempt.
C1_AttemptBudget ==
    /\ initReqs <= maxRetries
    /\ pc = "backoff" => log.attempt = initReqs /\ initReqs < maxRetries
    /\ (pc = "returned" /\ result.kind = "fail" /\ maxRetries > 0) =>
          /\ initReqs = maxRetries
          /\ log.attempt = maxRetries
          /\ result.error = log.error

C1_Witness ==
    /\ pc = "returned" /\ result.kind = "fail"
    /\ maxRetries = DefaultMaxRetries /\ initReqs = DefaultMaxRetries
    /\ result.error = Err("Timeout")

\* C2: within one call the GET to the confirm=<token> URL is issued at most
\* once, whatever the outer retry budget.
C2_ConfirmOnce == confirmReqs <= 1

\* C3: after an attempt has failed with FileTooLarge or with
\* ConfirmationTokenNotFound the downloader does not wait for another
\* attempt: the failure is returned.
NotRetried == {"FileTooLargeDeclared", "FileTooLargeStream", "ConfirmationTokenNotFound"}

C3_PermanentNotRetried ==
    pc = "backoff" => log.error.tag \notin NotRetried

\* C4: once streamToFile has rejected a transfer because the streamed bytes
\* exceeded the cap, the partial file does not exist in the temp directory.
C4_PartialFileGone ==
    \A p \in sizeAborted : files[p] = Absent

\* C5: the step that receives a non-HTML response with a Content-Length
\* above the cap fails the attempt without reserving a path or creating a
\* file; a Content-Length equal to the cap goes on to the download.
C5_DeclaredLength ==
    [][ (pc = "awaitResponse" /\ pc' # "awaitResponse" /\ resp'.kind = "binary") =>
            IF resp'.declared > MAX_FILE_SIZE_BYTES
            THEN /\ files' = files /\ pendingOpen' = pendingOpen /\ ws' = ws
                 /\ candidate' = candidate
                 /\ pc' \in {"backoff", "returned"}
                 /\ pc' = "returned" => result'.kind = "fail"
            ELSE pc' = "pathExists" ]_vars

C5_Witness ==
    /\ resp = [kind |-> "binary", declared |-> MAX_FILE_SIZE_BYTES + 1]
    /\ pc = "returned" /\ result = FailResult(Err("FileTooLargeDeclared"))
    /\ \A p \in Paths : files[p] = Absent
    /\ pendingOpen = {} /\ ws = NoStream

\* C6: when the call returns success, the write stream has finished and
\* the file at filePath holds exactly fileSize bytes, at most the cap; the
\* type detection that reads the file finds fileSize bytes.
C6_FullyWritten ==
    /\ (pc = "returned" /\ result.kind = "ok" /\ hpc \in {"none", "statusEdit2", "getFileType"}) =>
          /\ ws.state = "finished"
          /\ files[result.filePath] = result.fileSize
          /\ result.fileSize <= MAX_FILE_SIZE_BYTES
    /\ (pc = "returned" /\ result.kind = "ok" /\ hpc = "send") =>
          observed = result.fileSize

\* C7: downloadGoogleDriveFile never throws to its caller, whatever the
\* fileId: every failure comes back as a result with success = false.
C7_NeverThrows == pc # "thrown"

\* C8: a string that is not 25-50 characters of [a-zA-Z0-9_-] is rejected
\* before any network activity: no request, no wait, no temp file, and the
\* invalid-file-id failure is returned; also for a short identifier taken
\* from a link that isValidGoogleDriveUrl accepts.
NotATokenString(v) ==
    /\ v.type = "string"
    /\ \/ Len(v.chars) < MinFileIdLen
       \/ Len(v.chars) > MaxFileIdLen
       \/ \E i \in 1..Len(v.chars) : v.chars[i] \notin TokenAlphabet

C8_InvalidIdRejected ==
    (NotATokenString(fileId) /\ pc # "idle") =>
        /\ pc = "returned"
        /\ result = FailResult(Err("InvalidFileId"))
        /\ initReqs = 0 /\ confirmReqs = 0 /\ waits = <<>>
        /\ ws = NoStream /\ pendingOpen = {}
        /\ \A p \in Paths : files[p] = Absent

C8_Witness ==
    /\ caller \in {"basic", "enhanced"}
    /\ msgText = UrlView(MkId(19, FALSE))
    /\ fileId = Str(MkId(19, FALSE))
    /\ pc = "returned" /\ result = FailResult(Err("InvalidFileId"))
    /\ initReqs = 0

\* C9: when a message handler is through after a successful download, the
\* temp file at filePath has been deleted.
C9_TempFileDeleted ==
    (hpc = "done" /\ result.kind = "ok") => files[result.filePath] = Absent

(***************************************************************************)
(* Properties of the periodic sweep.                                       *)
(***************************************************************************)

\* C10: when a sweep ends, every file that was older than maxAge when the
\* sweep started and was not written afterwards has been deleted, also
\* when a handler removed another file meanwhile; and a sweep deletes no
\* file whose age is at or below the threshold.
C10_SweepDeletesOld ==
    /\ spc = "done" => \A f \in sweepOld \ touched : dirFiles[f] = NoFile
    /\ spc = "remove" =>
          LET f == Head(sweepList)
          IN  dirFiles[f] # NoFile => sweepNow - dirFiles[f].mtime > 60 * 60 * 1000


\* C13: the attempts of one download run one after the other: while a GET
\* of the download is pending, no response stream of an earlier attempt is
\* still open (neither ended nor destroyed), and at no time are two
\* response streams of the download open.
C13_SequentialAttempts ==
    /\ pc = "awaitResponse" => transfers = 0
    /\ transfers <= 1

\* C11: two downloads in flight at the same time with the same declared
\* file name never hold the same path returned by generateUniqueFilePath,
\* so they never write to the same file.
HoldsPath(p) == conc[p].pc \in {"createWriteStream", "streaming", "downloaded"}

C11_UniquePaths ==
    \A p, q \in Procs :
        (p # q /\ HoldsPath(p) /\ HoldsPath(q)) => conc[p].filePath # conc[q].filePath

\* C12: generateUniqueFilePath returns a path directly inside the temp
\* directory that does not exist when it is tested; when the path of the
\* clean name is taken (an earlier download of the same name is still
\* there), it is <name>_<k><ext> for the smallest k >= 1 whose path is free.
C12_UniquePath ==
    uCall.fn = "generateUniqueFilePath" =>
        LET clean == cleanFileName(uCall.fileName)
            first == JoinTempDir(clean)
        IN  /\ uRet.up = 0 /\ Len(uRet.segs) = 1
            /\ \A i \in 1..Len(uRet.segs[1]) : uRet.segs[1][i] \notin {"/", "\\"}
            /\ uRet.segs[1] \notin uCall.dir
            /\ IF pathExists(first, uCall.dir)
               THEN \E k \in 1..(MaxTaken + 1) :
                       /\ uRet.segs[1] = basename(clean, extname(clean)) \o <<"_">>
                                            \o Digits(k) \o extname(clean)
                       /\ \A j \in 1..(k - 1) : newFileName(clean, j) \in uCall.dir
               ELSE uRet = first

C12_Witness ==
    /\ uCall.fn = "generateUniqueFilePath"
    /\ uCall.fileName = <<"a", ".", "a">>
    /\ uCall.dir = {<<"a", ".", "a">>, <<"a", "_", "1", ".", "a">>}
    /\ uRet = [up |-> 0, segs |-> << <<"a", "_", "2", ".", "a">> >>]

\* C14: retryOperation with maxRetries >= 1 and the default retry condition
\* invokes operation once per attempt and never again after a success; it
\* returns the value of the first successful invocation, which is one of
\* the first maxRetries (after two failures with maxRetries = 3: three
\* invocations); when every invocation fails it has invoked operation
\* exactly maxRetries times and throws the error of the last one.
Invocations == Len(retry.outcomes) + (IF retry.pc = "operation" THEN 1 ELSE 0)

C14_RetryOperation ==
    (retry.pc # "idle" /\ retry.maxRetries >= 1 /\ retry.retryCondition = "default") =>
        /\ Invocations <= retry.maxRetries
        /\ \A i \in 1..Len(retry.outcomes) :
              retry.outcomes[i] = "ok" => i = Len(retry.outcomes) /\ retry.pc = "returned"
        /\ retry.pc = "returned" =>
              /\ retry.outcomes[Len(retry.outcomes)] = "ok"
              /\ retry.value = OperationValue(Invocations)
        /\ retry.pc = "thrown" =>
              /\ Invocations = retry.maxRetries
              /\ \A i \in 1..Invocations : retry.outcomes[i] = "err"
              /\ retry.value = OperationError(retry.maxRetries)
        /\ (retry.maxRetries = 3 /\ retry.outcomes = <<"err", "err", "ok">>) =>
              retry.pc = "returned" /\ retry.value = OperationValue(3)

C14_Witness ==
    /\ retry.maxRetries = 3 /\ retry.retryCondition = "default"
    /\ retry.outcomes = <<"err", "err", "ok">>
    /\ retry.pc = "returned"
    /\ retry.delays = <<1000, 2000>>

\* C15: the k-th wait of a retry loop is min(base * 2^(k-1), cap), with
\* base 1000 ms and cap 5000 ms in attemptDownload, base 1000 ms and cap
\* maxDelay (10000 ms unless given) in retryOperation; the waits never
\* decrease and never exceed the cap; and a wait follows a failed attempt
\* only when another attempt follows it: none after the last attempt, none
\* after a success.
ExpectedWait(k, base, cap) == IF base * (2 ^ (k - 1)) < cap THEN base * (2 ^ (k - 1)) ELSE cap

WaitsAsClaimed(ws_, base, cap) ==
    /\ \A k \in 1..Len(ws_) : ws_[k] = ExpectedWait(k, base, cap) /\ ws_[k] <= cap
    /\ \A k \in 1..(Len(ws_) - 1) : ws_[k] <= ws_[k + 1]

C15_Backoff ==
    /\ WaitsAsClaimed(waits, 1000, 5000)
    /\ Len(waits) = IF pc = "backoff" THEN initReqs
                    ELSE IF initReqs = 0 THEN 0 ELSE initReqs - 1
    /\ pc = "backoff" => initReqs < maxRetries
    /\ WaitsAsClaimed(retry.delays, 1000, retry.maxDelay)
    /\ retry.maxDelay \in {0, 10000, 3000}
    /\ Len(retry.delays) = IF retry.pc = "delay" THEN Len(retry.outcomes)
                           ELSE IF Invocations = 0 THEN 0 ELSE Invocations - 1
    /\ retry.pc = "delay" => Len(retry.outcomes) < retry.maxRetries

C15_Witness ==
    /\ pc = "returned" /\ result.kind = "fail"
    /\ maxRetries = 5 /\ initReqs = 5
    /\ waits = <<1000, 2000, 4000, 5000>>

\* C16: for each of the five supported link shapes (file/d/ID/view,
\* open?id=ID, docs.google.com/<kind>/d/ID, uc?id=ID&export=download and
\* uc?export=download&id=ID, file/d/ID/edit) built around an identifier ID,
\* parseGoogleDriveUrl returns ID and isValidGoogleDriveUrl returns true.
SupportedShapes == UrlShapes \ {"other"}

C16_SameIdentifier ==
    (uCall.fn = "parseGoogleDriveUrl" /\ uCall.shape \in SupportedShapes) =>
        /\ uRet.fileId = Str(uCall.id)
        /\ uRet.valid

\* C17: isValidFileId accepts a value exactly when it is a string of 25 to
\* 50 characters, each a letter, a digit, "_" or "-".
AllowedIdChars == {"a", "Z", "7", "_", "-"}

C17_ValidFileId ==
    uCall.fn = "isValidFileId" =>
        (uRet <=> /\ uCall.fileId.type = "string"
                  /\ Len(uCall.fileId.chars) >= 25
                  /\ Len(uCall.fileId.chars) <= 50
                  /\ \A i \in 1..Len(uCall.fileId.chars) :
                        uCall.fileId.chars[i] \in AllowedIdChars)

C17_Witness ==
    /\ uCall.fn = "isValidFileId"
    /\ uCall.fileId.type = "string"
    /\ Len(uCall.fileId.chars) = 50
    /\ uRet = TRUE

\* C18: a page that carries a confirmation token (a run of letters, digits,
\* "_" and "-", the characters every one of the four patterns takes into a
\* token) in the form of any of the four patterns gives that same token,
\* whichever pattern it is; a page that matches no pattern gives null.
IsTokenRun(token) == token # <<>> /\ \A i \in 1..Len(token) : token[i] \in AllowedIdChars

ClaimedMethod(fileType) ==
    IF fileType.kind # "object" \/ fileType.mime = NoMime THEN "sendDocument"
    ELSE CASE fileType.mime = <<"video", "mp4">> -> "sendVideo"
           [] fileType.mime = <<"image", "png">> -> "sendPhoto"
           [] fileType.mime = <<"audio", "mpeg">> -> "sendAudio"
           [] fileType.mime = <<"application", "pdf">> -> "sendDocument"
           [] OTHER -> "any"

C19_Dispatch ==
    (uCall.fn = "determineSendMethod" /\ ClaimedMethod(uCall.fileType) # "any") =>
        uRet = ClaimedMethod(uCall.fileType)

\* C20: whatever the MIME type and the file name, the method that
\* determineSendMethod returns is one of sendVideo, sendPhoto, sendAudio
\* and sendDocument.
C20_FourCategories ==
    uCall.fn = "determineSendMethod" =>
        uRet \in {"sendVideo", "sendPhoto", "sendAudio", "sendDocument"}

\* C21: the send operation the bot invokes is the one determineSendMethod
\* recommends for the detected MIME type: videos go out with sendVideo,
\* images with sendPhoto, audio files with sendAudio, PDFs and other
\* documents with sendDocument, in the basic and in the enhanced bot.
C21_SendMatchesRecommendation ==
    uCall.fn = "sendFileByType" => uRet.invoked = uRet.recommended

\* the three tiers of getFileType as the call record shows them: what each
\* tier finds, and whether an awaited library call or read failed before a
\* tier had answered
TierFile == IF uCall.fromFile \in {NoMime, <<"throws">>} THEN NoMime ELSE uCall.fromFile
TierExtension ==
    CASE uCall.extension \in {".pdf", ".PDF"} -> <<"application", "pdf">>
      [] uCall.extension = ".txt" -> <<"text", "plain">>
      [] uCall.extension = ".bin" -> <<"application", "octet-stream">>
      [] OTHER -> NoMime
TierBuffer == IF uCall.fromBuffer \in {NoMime, <<"throws">>} THEN NoMime ELSE uCall.fromBuffer
TierFailure ==
    \/ uCall.fromFile = <<"throws">>
    \/ /\ TierFile = NoMime /\ TierExtension = NoMime
       /\ (~uCall.readFile \/ uCall.fromBuffer = <<"throws">>)

TierOrder ==
    /\ uRet.kind = "return"
    /\ TierFailure => uRet.method = "error-fallback"
    /\ (~TierFailure /\ TierFile # NoMime) =>
           uRet.mime = TierFile /\ uRet.method = "magic-numbers"
    /\ (~TierFailure /\ TierFile = NoMime /\ TierExtension # NoMime) =>
           uRet.mime = TierExtension /\ uRet.method = "extension"
    /\ (~TierFailure /\ TierFile = NoMime /\ TierExtension = NoMime /\ TierBuffer # NoMime) =>
           uRet.mime = TierBuffer /\ uRet.method = "buffer-analysis"
    /\ (~TierFailure /\ TierFile = NoMime /\ TierExtension = NoMime /\ TierBuffer = NoMime) =>
           uRet.method = "default"
    /\ uRet.method \in {"default", "error-fallback"} =>
           uRet.mime = <<"application", "octet-stream">>
    /\ uRet.confidence = "low" <=> uRet.method \in {"default", "error-fallback"}

C23_TooLargeMessage ==
    (uCall.fn = "generateUserErrorMessage"
       /\ uCall.cause \in {"declared", "midStream", "handlerCheck"}) =>
        uRet = "fileTooLarge"

\* C24: in the basic bot every update reaches its handler through the
\* middleware chain: a text message with a Google Drive link reaches
\* handleGoogleDriveLink, a text message without one gets the "send a valid
\* link" reply, a message without text gets the text-only reply, and no
\* registered middleware keeps the update from the handlers.
C24_UpdateReachesHandler ==
    \A i \in 1..Len(served) :
        served[i].bot = "basic" =>
            /\ served[i].by \notin {"errorHandler", "requestLogger"}
            /\ served[i].kind = "driveLink" => served[i].outcome = "handleGoogleDriveLink"
            /\ served[i].kind = "plainText" => served[i].outcome = "replySendValidLink"
            /\ served[i].kind = "photo" => served[i].outcome = "replyTextOnly"

\* C25: for every command or button of the admin module, the admin panel or
\* user data is shown only when the sender's id is in the admin set; any
\* other sender gets the access-denied reply and no admin view.
C25_AdminOnly ==
    (uCall.fn = "admin" /\ uCall.userId \notin uCall.adminUsers) =>
        uRet = "accessDenied"

\* the lists of the users other than userId are the same before and after
\* a step
OthersKept(userId) ==
    \A u \in Users \ {userId} : fileHistory'[u] = fileHistory[u]

\* a step on the list of userId is an addition that puts the new entry
\* first, keeps the order of the others and drops exactly the oldest entry
\* of a full list, or the deletion of one entry
StepOn(userId) ==
    LET before == fileHistory[userId]
        after == fileHistory'[userId]
    IN  \/ /\ Len(before) < FileHistoryLimit
           /\ after = <<histClock'>> \o before
        \/ /\ Len(before) = FileHistoryLimit
           /\ after = <<histClock'>> \o SubSeq(before, 1, FileHistoryLimit - 1)
        \/ \E i \in 1..Len(before) :
              after = SubSeq(before, 1, i - 1) \o SubSeq(before, i + 1, Len(before))

\* C26: after any sequence of addToUserFileHistory and delete_file
\* operations every user's list holds at most 50 entries, ordered newest
\* first; an addition to a full list evicts exactly the oldest entry; one
\* user's operations never change another user's list.
C26_BoundedHistory ==
    /\ [](\A u \in Users :
            /\ Len(fileHistory[u]) <= FileHistoryLimit
            /\ \A i \in 1..(Len(fileHistory[u]) - 1) :
                  fileHistory[u][i] > fileHistory[u][i + 1])
    /\ [][fileHistory' = fileHistory
            \/ \E userId \in Users : StepOn(userId) /\ OthersKept(userId)]_vars

\* a full list has taken one more entry and lost its oldest one
C26_Witness ==
    /\ Len(fileHistory[Sender]) = FileHistoryLimit
    /\ fileHistory[Sender][1] = FileHistoryLimit + 1
    /\ fileHistory[Sender][FileHistoryLimit] = 2
    /\ fileHistory[2] # <<>>

\* sendFileByType of the enhanced bot resolves in this step
Delivered == caller = "enhanced" /\ hpc = "send" /\ hpc' = "remove"

\* C29: in the enhanced bot a user's download_count grows by exactly one,
\* and exactly one history entry is added, for each link whose file was
\* downloaded and delivered; on a failure of the parse, the download, the
\* size check or the delivery neither download_count nor the history of
\* that user changes.
C29_StatsConsistent ==
    /\ [](/\ \A u \in Users :
               /\ userStats[u].download_count = IF u = Sender THEN histClock ELSE 0
               /\ Len(fileHistory[u]) = userStats[u].download_count
          /\ histClock > 0 =>
               /\ caller = "enhanced" /\ result.kind = "ok"
               /\ hpc \in {"remove", "deleteMsg", "errorEdit", "done"}
          /\ (caller = "enhanced" /\ hpc \in {"remove", "deleteMsg"}) => histClock = 1)
    /\ [][IF Delivered
          THEN /\ userStats'[Sender].download_count = userStats[Sender].download_count + 1
               /\ fileHistory'[Sender] = <<histClock'>> \o fileHistory[Sender]
          ELSE userStats' = userStats /\ fileHistory' = fileHistory]_vars

\* a link was handled to the end and is counted once
C29_Witness ==
    /\ caller = "enhanced" /\ hpc = "done"
    /\ userStats[Sender].download_count = 1
    /\ Len(fileHistory[Sender]) = 1

\* C27: every call of downloadGoogleDriveFile ends after a number of HTTP
\* requests bounded by maxRetries, also when the server answers every
\* request with a confirmation page that carries a token: an attempt leads
\* to at most one confirmation request, and handleVirusScanPage is not
\* entered again from the attemptDownload it started.
C27_BoundedRequests ==
    /\ Len(stack) <= 2
    /\ initReqs + confirmReqs <= 2 * maxRetries

(***************************************************************************)
(* C28: analyzeGoogleDriveUrl never throws: for every text, also a link    *)
(* that matches a Drive pattern with an identifier shorter than 25 or      *)
(* longer than 50 characters, it returns null or an object whose           *)
(* isValidFileId field tells whether the extracted identifier is valid.    *)
(***************************************************************************)
C28_AnalyzeNeverThrows ==
    uCall.fn = "analyzeGoogleDriveUrl" =>
        \/ uRet.kind = "null"
        \/ /\ uRet.kind = "object"
           /\ uRet.isValidFileId = isValidFileId(uRet.fileId)

(***************************************************************************)
(* C30: checkCooldown enforces the cooldown per user and action: a call    *)
(* that is accepted (returns 0) comes at least cooldownTime ms after the   *)
(* last accepted call of the same user and action; a rejected call returns *)
(* a positive number and leaves the map as it was, so a call that comes    *)
(* at least cooldownTime ms after the last accepted one is accepted; the   *)
(* entries of every other user and action are left as they were.           *)
(***************************************************************************)
C30_Cooldown ==
    /\ [](cdCall.fn = "checkCooldown" =>
            /\ cdCall.ret >= 0
            /\ (cdCall.ret = 0 /\ cdCall.last # 0)
                   => cdCall.now - cdCall.last >= cdCall.cooldownTime
            /\ (cdCall.last # 0 /\ cdCall.now - cdCall.last >= cdCall.cooldownTime)
                   => cdCall.ret = 0)
    /\ [][cdCall' # cdCall =>
            LET Stored(map, key) == IF key \in DOMAIN map THEN map[key] ELSE 0 IN
            /\ cdCall'.ret > 0 => cooldowns' = cooldowns
            /\ \A userId \in Users, action \in {"refresh_status", "other"} :
                   <<userId, action>> # <<cdCall'.userId, cdCall'.action>>
                       => Stored(cooldowns', <<userId, action>>)
                              = Stored(cooldowns, <<userId, action>>)]_vars

\* a call is accepted exactly cooldownTime ms after the last accepted one of
\* its key, while another user's entry is in the map
C30_Witness ==
    /\ cdCall.fn = "checkCooldown"
    /\ cdCall.ret = 0
    /\ cdCall.last # 0
    /\ cdCall.now - cdCall.last = cdCall.cooldownTime
    /\ \E userId \in Users : userId # cdCall.userId
                                /\ <<userId, cdCall.action>> \in DOMAIN cooldowns

====
